---- MODULE Spec2Model ----
(***************************************************************************)
(* CartWhisper AI backend: the product-sync handler (POST                  *)
(* /api/products/sync), the quota ledger (checkDailyTokenQuota,            *)
(* updateTokenUsage), the audit record (SyncMonitor) and the read-side     *)
(* cache, as a state machine.  One step of a handler is one awaited        *)
(* statement together with the synchronous code that follows it.           *)
(* Database rows written through a handler's own client stay private to    *)
(* its transaction until COMMIT (READ COMMITTED), rows written through the *)
(* pool are visible at once.                                               *)
(***************************************************************************)
EXTENDS Integers, Sequences, FiniteSets, TLC

\* ------------------------------------------------------------------ bounds
NumRuns == 2          \* sync handler invocations that can be in flight
MaxTokens == 1        \* largest usage.total_tokens of one collaborator answer
DaysPerMonth == 2     \* days in a month of the model's calendar
SmallQuota == 2       \* a GlobalQuota.dailyTokenQuota an operator has set
NumCalls == 2         \* storefront queries that can be in flight
MaxDayChanges == 1    \* times the UTC date changes while requests are served

\* ------------------------------------------------- constants of the program
DefaultDailyTokenQuota == 10000000
RefreshLimitFree == 0
RefreshLimitPro == 3
RefreshLimitMax == 10
MaxPicks == 3
CandidateCap == 20
CanRefreshLimitFree == 1
CanRefreshLimitPro == 3
CanRefreshLimitMax == 10
ApiLimitFree == 5000
ApiLimitPro == 50000

Runs == 1..NumRuns
Calls == 1..NumCalls
ProductIds == {"p1", "p2"}
GenderedIds == {"m1", "f1"}     \* a men's and a women's product
\* a catalog with more candidates than one prompt lists, in payload order
CatalogIds ==
  <<"s01", "s02", "s03", "s04", "s05", "s06", "s07", "s08", "s09", "s10", "s11",
    "s12", "s13", "s14", "s15", "s16", "s17", "s18", "s19", "s20", "s21">>
NoDate == 0 - 1
FirstYear == 2024               \* the first year of the dates modelled
NumYears == 2                   \* how many years of dates are modelled
Today0 == DaysPerMonth          \* the first day of the second month
Yesterday0 == Today0 - 1        \* the last day of the month before

VARIABLES
  today,      \* the current UTC day
  gq,         \* the GlobalQuota row 'global'
  shop,       \* the Shop row of the tenant
  product,    \* committed Product rows of the tenant: productId and row id
  recs,       \* committed Recommendation rows of the tenant
  syncLog,    \* SyncLog row of each run: status and number of UPDATEs
  cache,      \* the process-local cache Map
  req,        \* the request each handler invocation serves
  pc,         \* where each handler invocation stands
  loc,        \* the local variables of each handler invocation
  tx,         \* the open transaction of each handler's client
  resp,       \* HTTP status sent by each handler invocation (0: none yet)
  qry,        \* GET /api/recommendations/:productId in flight
  stat,       \* GET /api/shops/sync-status in flight
  h,          \* history: the rows as they were before any request
  sf,         \* GET /api/storefront/recommendations requests in flight
  adm,        \* a plan change, a delete or an admin request in flight
  far,        \* the Shop, Product and Recommendation rows of a second tenant
  cyc         \* a billing-cycle computation: its inputs and the keys computed

vars == <<today, gq, shop, product, recs, syncLog, cache, req, pc, loc, tx,
          resp, qry, stat, h, sf, adm, far, cyc>>

\* ------------------------------------------------------------ calendar keys
NoKey == [kind |-> "null", val |-> 0]
\* new Date().toISOString().slice(0, 7)
MonthKey(d) == [kind |-> "month", val |-> d \div DaysPerMonth]
\* cycleStart.toISOString().slice(0, 10)
DayKey(d) == [kind |-> "day", val |-> d]

CurrentCycle(row, now) ==
  IF row.subscriptionStartedAt # NoDate
  THEN LET dayOfMonth == row.subscriptionStartedAt % DaysPerMonth
           cycleStart == (now \div DaysPerMonth) * DaysPerMonth + dayOfMonth
       IN  IF cycleStart > now THEN DayKey(cycleStart - DaysPerMonth)
                               ELSE DayKey(cycleStart)
  ELSE MonthKey(now)

\* ------------------------------------------------------- calendar dates
\* A JavaScript Date at day precision: year y, month m (0 = January) and day
\* of month d. The process runs in UTC, so getFullYear/getMonth/getDate and
\* toISOString name the same day.
DaysIn(y, m) ==
  IF m = 1
  THEN IF y % 4 = 0 /\ (y % 100 # 0 \/ y % 400 = 0) THEN 29 ELSE 28
  ELSE IF m \in {3, 5, 8, 10} THEN 30 ELSE 31

\* new Date(y, m, d) and Date.prototype.setMonth: a month below January
\* moves to the year before, a day past the end of the month moves into the
\* month after (d is at most 31, so by at most three days)
MakeDate(y, m, d) ==
  LET yy == IF m < 0 THEN y - 1 ELSE y
      mm == IF m < 0 THEN m + 12 ELSE m
  IN  IF d <= DaysIn(yy, mm) THEN [y |-> yy, m |-> mm, d |-> d]
      ELSE IF mm = 11 THEN [y |-> yy + 1, m |-> 0, d |-> d - DaysIn(yy, mm)]
      ELSE [y |-> yy, m |-> mm + 1, d |-> d - DaysIn(yy, mm)]

\* a > b on Dates
DateAfter(a, b) ==
  \/ a.y > b.y
  \/ a.y = b.y /\ a.m > b.m
  \/ a.y = b.y /\ a.m = b.m /\ a.d > b.d

\* currentCycle of a tenant whose anchor falls on day dayOfMonth (0: the
\* tenant has no subscriptionStartedAt), at the instant now
CycleKeyAt(dayOfMonth, now) ==
  IF dayOfMonth # 0
  THEN LET cycleStart == MakeDate(now.y, now.m, dayOfMonth)
           start == IF DateAfter(cycleStart, now)
                    THEN MakeDate(cycleStart.y, cycleStart.m - 1, cycleStart.d)
                    ELSE cycleStart
       IN  [kind |-> "day", y |-> start.y, m |-> start.m, d |-> start.d]
  ELSE [kind |-> "month", y |-> now.y, m |-> now.m, d |-> 0]

\* no key computed yet
NoCycleKey == [kind |-> "null", y |-> 0, m |-> 0, d |-> 0]

NoCycle == [dayOfMonth |-> 0, now |-> [y |-> 0, m |-> 0, d |-> 0],
            keys |-> [s \in {"gate", "canRefresh", "update"} |-> NoCycleKey]]

\* --------------------------------------------------------------- the catalog
\* What the generator sees of each submitted product: the handle as its
\* parts between hyphens, getGender, getCategory, whether productType names
\* an accessory or footwear, and the price.  p1 "Logo Tee" (handle logo-tee),
\* m1 "Mens Jean" (mens-jean), f1 "Summer Gown" (summer-gown), h1 "Summer
\* Beanie" of productType Headwear (summer-beanie), p2 "Cap" of productType
\* Accessories (cap), o1 "Gift Card" and o2 "Sticker Pack" without a
\* productType, s01..s21 "Crew Socks" of productType Socks.
Attr(p) ==
  CASE p = "p1" ->
         [handle |-> <<"logo", "tee">>, gender |-> "unisex", category |-> "top",
          accType |-> FALSE, price |-> 2]
    [] p = "m1" ->
         [handle |-> <<"mens", "jean">>, gender |-> "male", category |-> "bottom",
          accType |-> FALSE, price |-> 3]
    [] p = "f1" ->
         [handle |-> <<"summer", "gown">>, gender |-> "female",
          category |-> "dress", accType |-> FALSE, price |-> 2]
    [] p = "h1" ->
         [handle |-> <<"summer", "beanie">>, gender |-> "unisex",
          category |-> "hat", accType |-> FALSE, price |-> 1]
    [] p = "o1" ->
         [handle |-> <<"gift", "card">>, gender |-> "unisex",
          category |-> "other", accType |-> FALSE, price |-> 3]
    [] p = "o2" ->
         [handle |-> <<"sticker", "pack">>, gender |-> "unisex",
          category |-> "other", accType |-> FALSE, price |-> 1]
    [] p = "p2" ->
         [handle |-> <<"cap">>, gender |-> "unisex", category |-> "hat",
          accType |-> TRUE, price |-> 1]
    [] OTHER ->
         [handle |-> <<"socks", p>>, gender |-> "unisex", category |-> "sock",
          accType |-> FALSE, price |-> 1]

\* ------------------------------------------------------------------ helpers
Take(s, n) == IF Len(s) <= n THEN s ELSE SubSeq(s, 1, n)
Range(s) == {s[i] : i \in 1..Len(s)}

RECURSIVE SumOver(_, _)
SumOver(S, f) ==
  IF S = {} THEN 0
  ELSE LET x == CHOOSE y \in S : TRUE IN f[x] + SumOver(S \ {x}, f)

\* A row a transaction can lock: its table, what identifies it among the
\* rows of its tenant, and the tenant ("shopId"; "A" unless said otherwise).
Key(t, a, b) == [t |-> t, a |-> a, b |-> b, shop |-> "A"]
\* A key without the tenant: not what WHERE "shopId" = ... selects, kept to
\* show that C37 sees the tenant in every statement.
KeyOfAnyTenant(tenant, k) == k
\* the row k of tenant `tenant`
KeyOf(tenant, k) == [k EXCEPT !.shop = tenant]
GqKey == [t |-> "gq", a |-> "", b |-> "", shop |-> ""]
ShopKey == Key("shop", "", "")
ProdKey(p) == Key("prod", p, "")
RecKey(s, t) == Key("rec", s, t)

\* A row lock is free for run r when no other transaction holds it.
LockFree(r, k) ==
  /\ \A o \in Runs \ {r} : k \notin tx[o].locks
  /\ k \notin adm.locks
\* A row lock is free for the request of adm when no sync run holds it.
RunsLockFree(k) == \A o \in Runs : k \notin tx[o].locks
\* A statement sent through the pool waits for every transaction, also the
\* caller's own.
PoolLockFree(k) == RunsLockFree(k) /\ k \notin adm.locks

\* -------------------------------------------------------------- quota ledger
\* const quota = globalQuota.dailyTokenQuota || 10000000
QuotaOf(row) ==
  IF row.dailyTokenQuota = 0 THEN DefaultDailyTokenQuota ELSE row.dailyTokenQuota

\* checkDailyTokenQuota: the row as the caller counts it, after `if
\* (lastResetDate !== today) tokensUsed = 0`
CountedRow(row, day) ==
  IF row.quotaResetDate # day
  THEN [row EXCEPT !.tokensUsedToday = 0, !.quotaResetDate = day]
  ELSE row

\* A reset that clears the counter and leaves the date as it was: not what
\* the UPDATE does, kept to show that C1 sees the reset as written.
LazyResetNoStamp(row, day) ==
  [row EXCEPT !.tokensUsedToday = 0]

\* checkDailyTokenQuota: UPDATE "GlobalQuota" SET "tokensUsedToday" = 0,
\* "quotaResetDate" = today, applied to the row as it is when the UPDATE runs
LazyReset(row, day) ==
  [row EXCEPT !.tokensUsedToday = 0, !.quotaResetDate = day]

\* A check that rejects only above the quota: not what the function does,
\* kept to show that C17 sees the comparison.
QuotaAllowedAtLimit(row, day) ==
  ~(CountedRow(row, day).tokensUsedToday > QuotaOf(row))

\* checkDailyTokenQuota: allowed unless tokensUsed >= quota
QuotaAllowed(row, day) ==
  ~(CountedRow(row, day).tokensUsedToday >= QuotaOf(row))

\* updateTokenUsage: the GlobalQuota row after the debit
DebitGlobalRow(row, tokensUsed, day) ==
  [row EXCEPT !.tokensUsedToday =
                 IF row.quotaResetDate = day THEN row.tokensUsedToday + tokensUsed
                                             ELSE tokensUsed,
              !.quotaResetDate = day]

\* A debit that stores the run's usage over the counter: not what the
\* UPDATE does, kept to show that C3 sees the addition.
DebitShopRowOverwrite(row, tokensUsed, day) ==
  [row EXCEPT !.tokensUsedToday = tokensUsed, !.quotaResetDate = day]

\* updateTokenUsage: the Shop row after the debit
DebitShopRow(row, tokensUsed, day) ==
  [row EXCEPT !.tokensUsedToday =
                 IF row.quotaResetDate = day THEN row.tokensUsedToday + tokensUsed
                                             ELSE tokensUsed,
              !.quotaResetDate = day]

\* ------------------------------------------------------------ mode and gates
MonitorMode(isFirstSync, mode, regenerate) ==
  IF isFirstSync THEN "initial"
  ELSE IF mode = "refresh" \/ regenerate THEN "refresh"
  ELSE "incremental"

\* A resolver that looks at the hint before isFirstSync: not what the handler
\* does, kept to show that C10 sees the order of the two tests.
ActualModeHintFirst(isFirstSync, mode, regenerate) ==
  IF mode = "refresh" \/ regenerate THEN "refresh"
  ELSE IF isFirstSync THEN "initial"
  ELSE "incremental"

ActualMode(isFirstSync, mode, regenerate) ==
  IF isFirstSync THEN "initial"
  ELSE IF mode = "refresh" \/ regenerate THEN "refresh"
  ELSE "incremental"

\* An eligibility test that is skipped once the initial sync is done: not
\* what the function does, kept to show that C18 sees it on every run.
AccessAllowedAfterFirstSync(row) ==
  IF row.initialSyncDone THEN TRUE
  ELSE IF row.isWhitelisted THEN TRUE
  ELSE IF row.isDevelopmentStore THEN FALSE
  ELSE TRUE

\* checkDevelopmentStoreAccess(shop).allowed
AccessAllowed(row) ==
  IF row.isWhitelisted THEN TRUE
  ELSE IF row.isDevelopmentStore THEN FALSE
  ELSE TRUE

\* REFRESH_LIMITS[plan] || REFRESH_LIMITS.free, of the gate
RefreshLimit(plan) ==
  CASE plan = "pro" -> RefreshLimitPro
    [] plan = "max" -> RefreshLimitMax
    [] OTHER -> RefreshLimitFree

\* the gate's refreshCount: reset when refreshMonth is not the calendar month
GateRefreshCount(row, now) ==
  IF row.refreshMonth # MonthKey(now) THEN 0 ELSE row.refreshCount

RefreshGateRejects(row, now) ==
  GateRefreshCount(row, now) >= RefreshLimit(row.plan)

\* canRefresh: REFRESH_LIMITS[plan] || REFRESH_LIMITS.free, of the helper
CanRefreshLimit(plan) ==
  CASE plan = "pro" -> CanRefreshLimitPro
    [] plan = "max" -> CanRefreshLimitMax
    [] OTHER -> CanRefreshLimitFree

\* canRefresh: the helper's refreshCount, reset when refreshMonth is not the
\* current cycle (anchored on subscriptionStartedAt, else the calendar month)
CanRefreshCount(row, now) ==
  IF row.refreshMonth # CurrentCycle(row, now) THEN 0 ELSE row.refreshCount

\* canRefresh(shop).allowed
CanRefreshAllowed(row, now) ==
  ~(CanRefreshCount(row, now) >= CanRefreshLimit(row.plan))

\* A counter that is always incremented: not what the handler does, kept to
\* show that C16 sees the restart of a new cycle.
NewRefreshCountAlwaysAdds(row, currentCycle) == row.refreshCount + 1

\* updateFields.refreshCount of a refresh run
NewRefreshCount(row, currentCycle) ==
  IF row.refreshMonth # currentCycle THEN 1 ELSE row.refreshCount + 1

\* HTTP status of each rejection
RejectStatus(reason) ==
  CASE reason = "SYNC_DISABLED" -> 403
    [] reason = "PRODUCTS_REQUIRED" -> 400
    [] reason = "DEV_STORE" -> 403
    [] OTHER -> 429

\* ---------------------------------------------------------------- generator
\* normalize: handle.replace(/-[a-z0-9]*$/, ''), the part after the last
\* hyphen is removed, a handle without a hyphen stays as it is
Normalize(handle) ==
  IF Len(handle) > 1 THEN SubSeq(handle, 1, Len(handle) - 1) ELSE handle

\* A comparison of whole handles: not what isSameProduct does, kept to show
\* that C33 sees the suffix being removed.
IsSameProductWholeHandle(a, b) == Attr(a).handle = Attr(b).handle

\* isSameProduct: equal handles after the variant suffix is removed
IsSameProduct(a, b) == Normalize(Attr(a).handle) = Normalize(Attr(b).handle)

\* A filter without the two gender tests: not what the generator does, kept
\* to show that C23 sees them.
AdmissibleAnyGender(src, p) ==
  /\ p # src
  /\ ~IsSameProduct(src, p)
  /\ ~(Attr(src).category = Attr(p).category /\ Attr(src).category # "other")

\* the candidate filter `others` of one source product
Admissible(src, p) ==
  /\ p # src
  /\ ~IsSameProduct(src, p)
  /\ ~(Attr(src).gender = "male" /\ Attr(p).gender = "female")
  /\ ~(Attr(src).gender = "female" /\ Attr(p).gender = "male")
  /\ ~(Attr(src).category = Attr(p).category /\ Attr(src).category # "other")

Others(src, targetPool) == SelectSeq(targetPool, LAMBDA p : Admissible(src, p))

\* the categories the ranking counts as accessories
AccessoryCategories == {"hat", "jewelry", "bag", "sock", "shoe", "accessory"}

\* nonAccessories.sort((a, b) => a.price - b.price): a stable sort, by
\* insertion
RECURSIVE SortByPrice(_)
SortByPrice(q) ==
  IF q = <<>> THEN <<>>
  ELSE LET rest == SortByPrice(SubSeq(q, 1, Len(q) - 1))
           x == q[Len(q)]
       IN  SelectSeq(rest, LAMBDA y : Attr(y).price <= Attr(x).price)
           \o <<x>>
           \o SelectSeq(rest, LAMBDA y : Attr(y).price > Attr(x).price)

\* [...accessories, ...nonAccessories]: accessories by category in the order
\* of the pool, then the others by ascending price
Ranked(others) ==
  SelectSeq(others, LAMBDA p : Attr(p).category \in AccessoryCategories)
  \o SortByPrice(SelectSeq(others,
                           LAMBDA p : Attr(p).category \notin AccessoryCategories))

\* limitedOthers: the candidates the prompt lists
LimitedOthers(others) == Take(Ranked(others), CandidateCap)

\* Fallback pool: accessories by productType if there are any, else others
FallbackPool(others) ==
  LET accessories == SelectSeq(others, LAMBDA p : Attr(p).accType)
  IN  IF Len(accessories) > 0 THEN accessories ELSE others

Edge(s, t, why) == [src |-> s, tgt |-> t, reason |-> why]

RECURSIVE FallbackEdges(_, _)
FallbackEdges(src, pool) ==
  IF pool = <<>> THEN <<>>
  ELSE <<Edge(src, Head(pool), "Perfect match")>> \o FallbackEdges(src, Tail(pool))

\* The picks of one parsed answer: at most three are looked at, a repeated id
\* and an id that is no candidate are dropped.
RECURSIVE PickEdges(_, _, _, _)
PickEdges(src, others, picks, seen) ==
  IF picks = <<>> THEN <<>>
  ELSE LET id == Head(picks)
       IN  IF id \in seen \/ id \notin Range(others)
           THEN PickEdges(src, others, Tail(picks), seen)
           ELSE <<Edge(src, id, "Recommended pairing")>>
                \o PickEdges(src, others, Tail(picks), seen \cup {id})

\* What callDeepSeek can return for one prompt: null (no key, network error,
\* non-OK status), or content and usage; the content may hold no JSON object
\* or one that JSON.parse rejects ("text"), or one whose recommendations name
\* the ids `picks`.
\* The ids an answer names: one id of the catalog (a candidate or not), the
\* last candidate of the pool once or twice, or the first four candidates.
PickLists(others) ==
  {<<p>> : p \in ProductIds \cup GenderedIds}
  \cup {<<others[Len(others)]>>, <<others[Len(others)], others[Len(others)]>>,
        Take(others, MaxPicks + 1)}

Answers(others) ==
  {[kind |-> "null", picks |-> <<>>, total_tokens |-> 0]}
  \cup {[kind |-> "text", picks |-> <<>>, total_tokens |-> t] : t \in 0..MaxTokens}
  \cup {[kind |-> "json", picks |-> ps, total_tokens |-> t] :
          ps \in PickLists(others), t \in 0..MaxTokens}

\* results.push(...) of one source product for one answer
EdgesFor(src, others, answer) ==
  IF answer.kind = "null"
  THEN FallbackEdges(src, Take(FallbackPool(others), MaxPicks))
  ELSE IF answer.kind = "json"
  THEN PickEdges(src, others, Take(answer.picks, MaxPicks), {})
  ELSE <<>>

\* ------------------------------------------------------------ rows and views
\* The Shop row a registration creates (column defaults of initDatabase).
NewShop ==
  [plan |-> "free", initialSyncDone |-> FALSE, lastRefreshAt |-> NoDate,
   productCount |-> 0, refreshCount |-> 0, refreshMonth |-> NoKey,
   isDevelopmentStore |-> FALSE, isWhitelisted |-> FALSE,
   tokensUsedToday |-> 0, quotaResetDate |-> NoDate, isSyncEnabled |-> TRUE,
   subscriptionStartedAt |-> NoDate, dailyTokenQuota |-> DefaultDailyTokenQuota,
   apiCallsToday |-> 0, apiCallsDate |-> NoDate]

\* A Product row: the external id and the row's own id (crypto.randomUUID()).
ProductRow(p, id) == [productId |-> p, id |-> id]

\* An INSERT without the ON CONFLICT clause: not what the statement does,
\* kept to show that C14 sees the conflict rule.
InsertedAlways(rows, p, id) == {ProductRow(p, id)}

\* INSERT INTO "Product" ... ON CONFLICT ("shopId", "productId") DO UPDATE:
\* the rows the statement adds to those it sees; a row that is there keeps
\* its id, only its display attributes are overwritten
Upserted(rows, p, id) ==
  IF \E row \in rows : row.productId = p THEN {} ELSE {ProductRow(p, id)}

GqRow(quota, used, date) ==
  [dailyTokenQuota |-> quota, tokensUsedToday |-> used, quotaResetDate |-> date]

NoTx ==
  [open |-> FALSE, prodIns |-> {}, recDel |-> {}, recPut |-> {},
   shopDirty |-> FALSE, shopRow |-> NewShop,
   gqDirty |-> FALSE, gqRow |-> GqRow(0, 0, NoDate), locks |-> {}]

NoLocals ==
  [shop |-> NewShop, today |-> 0, site |-> 0, gqRead |-> GqRow(0, 0, NoDate),
   reject |-> "", monitorMode |-> "", actualMode |-> "", i |-> 1,
   saved |-> <<>>, needing |-> <<>>, g |-> 1, out |-> <<>>, totalTokens |-> 0,
   k |-> 1, count |-> 0, tokensUsed |-> 0, now |-> 0, newCount |-> 0,
   newMonth |-> NoKey, usages |-> <<>>, kinds |-> <<>>, client |-> "none",
   error |-> "", sent |-> <<>>]

\* key: what the x-api-key header holds ("ok": the key of the tenant's Shop
\* row, "none": no header, "bad": a key that matches no Shop row)
NoRequest ==
  [kind |-> "none", key |-> "none", tenant |-> "A", hint |-> "auto",
   regenerate |-> FALSE, products |-> <<>>]
SyncRequest(hint, regenerate, products) ==
  [kind |-> "sync", key |-> "ok", tenant |-> "A", hint |-> hint,
   regenerate |-> regenerate, products |-> products]

\* the tenant whose API key run r's request carries (req.shop.id)
Tenant(r) == req[r].tenant
\* the committed rows WHERE "shopId" (or "id") is the tenant's
ShopRow(tenant) == IF tenant = "B" THEN far.shop ELSE shop
ProductRows(tenant) == IF tenant = "B" THEN far.product ELSE product
RecRows(tenant) == IF tenant = "B" THEN far.recs ELSE recs

\* What run r's client reads: committed rows overlaid with its own writes.
ShopView(r) == IF tx[r].shopDirty THEN tx[r].shopRow ELSE ShopRow(Tenant(r))
GqView(r) == IF tx[r].gqDirty THEN tx[r].gqRow ELSE gq
SameEdge(e, f) == e.src = f.src /\ e.tgt = f.tgt
RecsView(r) ==
  {e \in RecRows(Tenant(r)) : /\ <<e.src, e.tgt>> \notin tx[r].recDel
                              /\ \A f \in tx[r].recPut : ~SameEdge(e, f)}
  \cup tx[r].recPut

IsFree(r) == loc[r].shop.plan = "free"
WantsRefresh(r) == req[r].hint = "refresh" \/ req[r].regenerate

\* ------------------------------------------------ POST /api/products/sync
Rejected(l, reason) == [pc |-> "rejFail", loc |-> [l EXCEPT !.reject = reason]]

\* `let actualMode ...` and the start of the product loop
Admitted(r, l) ==
  [pc |-> "upsert",
   loc |-> [l EXCEPT !.actualMode =
              ActualMode(~l.shop.initialSyncDone, req[r].hint, req[r].regenerate)]]

\* after the token gate: the refresh gate is entered on the request's hint
AfterQuotaGate(r, l) ==
  IF WantsRefresh(r) THEN [pc |-> "refreshGate", loc |-> l] ELSE Admitted(r, l)

\* the code that follows `await client.query('BEGIN')` up to the next await
LocalGates(r, l) ==
  IF l.shop.isSyncEnabled = FALSE THEN Rejected(l, "SYNC_DISABLED")
  ELSE IF req[r].products = <<>> THEN Rejected(l, "PRODUCTS_REQUIRED")
  ELSE IF ~AccessAllowed(l.shop) THEN Rejected(l, "DEV_STORE")
  ELSE IF l.shop.plan = "free"
       THEN [pc |-> "quota", loc |-> [l EXCEPT !.today = today, !.site = 1]]
  ELSE AfterQuotaGate(r, l)

\* the code that follows a return of checkDailyTokenQuota: the gate (site 1)
\* or the quota info of the response (site 2)
AfterQuotaCheck(r, l) ==
  IF l.site = 1
  THEN IF QuotaAllowed(l.gqRead, l.today) THEN AfterQuotaGate(r, l)
       ELSE Rejected(l, "QUOTA")
  ELSE [pc |-> "commit", loc |-> l]

\* after the products and edges are written: `const now = new Date()`
AfterSave(l) ==
  [pc |-> IF l.actualMode = "refresh" THEN "shopLock" ELSE "shopUpdate",
   loc |-> [l EXCEPT !.now = today]]

\* productsNeedingRecs is known
AfterDiff(l, needing) ==
  IF Len(needing) > 0
  THEN [pc |-> "generate",
        loc |-> [l EXCEPT !.needing = needing, !.g = 1, !.out = <<>>,
                          !.totalTokens = 0]]
  ELSE AfterSave([l EXCEPT !.needing = needing])

\* A strategy that never deletes: a refresh run goes on like a first sync.
\* Not what the handler does, kept to show that C12 sees the DELETE.
AfterUpsertNoDelete(l) ==
  IF l.actualMode = "incremental" THEN [pc |-> "diff", loc |-> l]
  ELSE AfterDiff(l, l.saved)

\* the product loop is over
AfterUpsert(l) ==
  IF l.actualMode = "refresh" THEN [pc |-> "deleteRecs", loc |-> l]
  ELSE IF l.actualMode = "incremental" THEN [pc |-> "diff", loc |-> l]
  ELSE AfterDiff(l, l.saved)

\* A return of the generator after which no usage is recorded: not what the
\* handler does, kept to show that C20 sees recordTokenUsage.
AfterGenerateNoRecord(l) ==
  IF Len(l.out) > 0 THEN [pc |-> "saveRecs", loc |-> [l EXCEPT !.k = 1]]
  ELSE AfterSave(l)

\* generateRecommendations has returned
AfterGenerate(l) ==
  LET m == [l EXCEPT !.tokensUsed = IF l.totalTokens > 0 THEN @ + l.totalTokens ELSE @]
  IN  IF Len(l.out) > 0 THEN [pc |-> "saveRecs", loc |-> [m EXCEPT !.k = 1]]
      ELSE AfterSave(m)

\* after the debit (or without one): the response's canRefresh and quota info
AfterDebit(l) ==
  IF l.shop.plan = "free"
  THEN [pc |-> "quota", loc |-> [l EXCEPT !.today = today, !.site = 2]]
  ELSE [pc |-> "commit", loc |-> l]

\* An update that stamps lastRefreshAt in every mode: not what the handler
\* does, kept to show that C34 sees what an incremental run leaves alone.
ShopAfterSyncStampsAlways(row, l) ==
  [row EXCEPT
     !.productCount = Len(l.saved),
     !.initialSyncDone = IF l.actualMode = "initial" THEN TRUE ELSE @,
     !.lastRefreshAt = l.now,
     !.refreshCount = IF l.actualMode = "refresh" THEN l.newCount ELSE @,
     !.refreshMonth = IF l.actualMode = "refresh" THEN l.newMonth ELSE @]

\* UPDATE "Shop" SET "productCount" = ..., COALESCE(...) of the run
ShopAfterSync(row, l) ==
  [row EXCEPT
     !.productCount = Len(l.saved),
     !.initialSyncDone = IF l.actualMode = "initial" THEN TRUE ELSE @,
     !.lastRefreshAt = IF l.actualMode \in {"initial", "refresh"} THEN l.now ELSE @,
     !.refreshCount = IF l.actualMode = "refresh" THEN l.newCount ELSE @,
     !.refreshMonth = IF l.actualMode = "refresh" THEN l.newMonth ELSE @]

Goto(r, step) ==
  /\ pc' = [pc EXCEPT ![r] = step.pc]
  /\ loc' = [loc EXCEPT ![r] = step.loc]

\* the handler is entered with the tenant's Shop row as req.shop:
\* pool.connect() and the monitor mode
HandlerEntered(r) ==
  [pc |-> "start",
   loc |-> [loc[r] EXCEPT
              !.shop = ShopRow(Tenant(r)),
              !.client = "held",
              !.monitorMode = MonitorMode(~ShopRow(Tenant(r)).initialSyncDone,
                                          req[r].hint, req[r].regenerate)]]

\* A middleware that lets every request through to the handler: not what
\* auth does, kept to show that C26 sees the two 401 returns.
AuthAnyKey(r) ==
  /\ pc[r] = "idle"
  /\ req[r].kind = "sync"
  /\ Goto(r, HandlerEntered(r))
  /\ UNCHANGED <<today, gq, shop, product, recs, syncLog, cache, req, tx, resp,
                 qry, stat, h, sf, adm, far, cyc>>

\* auth: 401 without a key, SELECT * FROM "Shop" WHERE "apiKey" = ... and 401
\* when no row matches; else next(), and the handler starts with
\* pool.connect()
Auth(r) ==
  /\ pc[r] = "idle"
  /\ req[r].kind = "sync"
  /\ IF req[r].key = "ok"
     THEN /\ Goto(r, HandlerEntered(r))
          /\ resp' = resp
     ELSE /\ Goto(r, [pc |-> "done", loc |-> loc[r]])
          /\ resp' = [resp EXCEPT ![r] = 401]
  /\ UNCHANGED <<today, gq, shop, product, recs, syncLog, cache, req, tx,
                 qry, stat, h, sf, adm, far, cyc>>

\* monitor.start(): INSERT INTO "SyncLog" ... 'started'
MonitorStart(r) ==
  /\ pc[r] = "start"
  /\ syncLog' = [syncLog EXCEPT ![r] =
       [status |-> "started", mode |-> loc[r].monitorMode, updates |-> 0]]
  /\ pc' = [pc EXCEPT ![r] = "begin"]
  /\ UNCHANGED <<today, gq, shop, product, recs, cache, req, loc, tx, resp,
                 qry, stat, h, sf, adm, far, cyc>>

\* BEGIN, then the gates that read only req.shop and req.body
Begin(r) ==
  /\ pc[r] = "begin"
  /\ tx' = [tx EXCEPT ![r].open = TRUE]
  /\ Goto(r, LocalGates(r, loc[r]))
  /\ UNCHANGED <<today, gq, shop, product, recs, syncLog, cache, req, resp,
                 qry, stat, h, sf, adm, far, cyc>>

\* a rejecting gate: await monitor.fail(new Error(...))
RejectFail(r) ==
  /\ pc[r] = "rejFail"
  /\ syncLog' = [syncLog EXCEPT ![r].status = "failed", ![r].updates = @ + 1]
  /\ pc' = [pc EXCEPT ![r] = "rejRollback"]
  /\ UNCHANGED <<today, gq, shop, product, recs, cache, req, loc, tx, resp,
                 qry, stat, h, sf, adm, far, cyc>>

\* a rejecting gate: ROLLBACK and the 4xx response
RejectRollback(r) ==
  /\ pc[r] = "rejRollback"
  /\ tx' = [tx EXCEPT ![r] = NoTx]
  /\ resp' = [resp EXCEPT ![r] = RejectStatus(loc[r].reject)]
  /\ pc' = [pc EXCEPT ![r] = "done"]
  /\ UNCHANGED <<today, gq, shop, product, recs, syncLog, cache, req, loc,
                 qry, stat, h, sf, adm, far, cyc>>

\* checkDailyTokenQuota: SELECT * FROM "GlobalQuota" through the pool
QuotaSelect(r) ==
  /\ pc[r] = "quota"
  /\ LET l == [loc[r] EXCEPT !.gqRead = gq]
     IN  IF gq.quotaResetDate # l.today
         THEN Goto(r, [pc |-> "quotaReset", loc |-> l])
         ELSE Goto(r, AfterQuotaCheck(r, l))
  /\ UNCHANGED <<today, gq, shop, product, recs, syncLog, cache, req, tx, resp,
                 qry, stat, h, sf, adm, far, cyc>>

\* checkDailyTokenQuota: the lazy reset UPDATE through the pool
QuotaReset(r) ==
  /\ pc[r] = "quotaReset"
  /\ PoolLockFree(GqKey)
  /\ gq' = LazyReset(gq, loc[r].today)
  /\ Goto(r, AfterQuotaCheck(r, loc[r]))
  /\ UNCHANGED <<today, shop, product, recs, syncLog, cache, req, tx, resp,
                 qry, stat, h, sf, adm, far, cyc>>

\* the refresh gate: SELECT ... FROM "Shop" ... FOR UPDATE on the client
RefreshGate(r) ==
  /\ pc[r] = "refreshGate"
  /\ LockFree(r, KeyOf(Tenant(r), ShopKey))
  /\ tx' = [tx EXCEPT ![r].locks = @ \cup {KeyOf(Tenant(r), ShopKey)}]
  /\ IF RefreshGateRejects(ShopView(r), today)
     THEN Goto(r, Rejected(loc[r], "REFRESH_LIMIT"))
     ELSE Goto(r, Admitted(r, loc[r]))
  /\ UNCHANGED <<today, gq, shop, product, recs, syncLog, cache, req, resp,
                 qry, stat, h, sf, adm, far, cyc>>

\* one pass of `for (const p of products)`: INSERT ... ON CONFLICT DO UPDATE
\* and the SELECT that follows; p.id.replace throws when the item has no id
UpsertProduct(r) ==
  /\ pc[r] = "upsert"
  /\ LET l == loc[r]
         p == req[r].products[l.i]
     IN  IF p = "noid"
         THEN /\ Goto(r, [pc |-> "catch", loc |-> [l EXCEPT !.error = "TypeError"]])
              /\ tx' = tx
         ELSE /\ LockFree(r, KeyOf(Tenant(r), ProdKey(p)))
              /\ tx' = [tx EXCEPT
                   ![r].prodIns =
                      @ \cup Upserted(ProductRows(Tenant(r)) \cup @, p, <<r, l.i>>),
                   ![r].locks = @ \cup {KeyOf(Tenant(r), ProdKey(p))}]
              /\ LET m == [l EXCEPT !.saved = Append(@, p), !.i = @ + 1]
                 IN  IF l.i = Len(req[r].products)
                     THEN Goto(r, AfterUpsert(m))
                     ELSE Goto(r, [pc |-> "upsert", loc |-> m])
  /\ UNCHANGED <<today, gq, shop, product, recs, syncLog, cache, req, resp,
                 qry, stat, h, sf, adm, far, cyc>>

\* refresh: DELETE FROM "Recommendation" WHERE "shopId" = ...
DeleteRecs(r) ==
  /\ pc[r] = "deleteRecs"
  /\ \A e \in RecRows(Tenant(r)) :
       LockFree(r, KeyOf(Tenant(r), RecKey(e.src, e.tgt)))
  /\ tx' = [tx EXCEPT
       ![r].recDel = {<<e.src, e.tgt>> : e \in RecRows(Tenant(r))},
       ![r].recPut = {},
       ![r].locks = @ \cup {KeyOf(Tenant(r), RecKey(e.src, e.tgt)) :
                              e \in RecRows(Tenant(r))}]
  /\ Goto(r, AfterDiff(loc[r], loc[r].saved))
  /\ UNCHANGED <<today, gq, shop, product, recs, syncLog, cache, req, resp,
                 qry, stat, h, sf, adm, far, cyc>>

\* A diff that keeps every saved product: not what the handler does, kept to
\* show that C13 sees the filter.
DiffAll(r) ==
  /\ pc[r] = "diff"
  /\ Goto(r, AfterDiff(loc[r], loc[r].saved))
  /\ UNCHANGED <<today, gq, shop, product, recs, syncLog, cache, req, tx, resp,
                 qry, stat, h, sf, adm, far, cyc>>

\* incremental: SELECT DISTINCT "sourceId" and the filter of saved
Diff(r) ==
  /\ pc[r] = "diff"
  /\ LET existingSourceIds == {e.src : e \in RecsView(r)}
         needing == SelectSeq(loc[r].saved, LAMBDA p : p \notin existingSourceIds)
     IN  Goto(r, AfterDiff(loc[r], needing))
  /\ UNCHANGED <<today, gq, shop, product, recs, syncLog, cache, req, tx, resp,
                 qry, stat, h, sf, adm, far, cyc>>

\* A generator that lets a failed call escape to the handler's catch: not
\* what callDeepSeek does (it returns null), kept to show that C22 sees it.
GenerateOneThrows(r) ==
  /\ pc[r] = "generate"
  /\ pc' = [pc EXCEPT ![r] = "catch"]
  /\ UNCHANGED <<today, gq, shop, product, recs, syncLog, cache, req, loc, tx,
                 resp, qry, stat, h, sf, adm, far, cyc>>

\* generateRecommendations: one pass of `for (const product of products)`,
\* with one call of the collaborator unless the product has no candidate
GenerateOne(r) ==
  /\ pc[r] = "generate"
  \* loc[r].usages keeps the usage.total_tokens of every response received,
  \* loc[r].kinds what callDeepSeek returned for each product of the loop
  \* ("skip": no candidate, no call), loc[r].sent the candidates its prompt
  \* listed
  /\ LET l == loc[r]
         src == l.needing[l.g]
         others == Others(src, l.saved)
     IN  \E a \in IF Len(others) = 0
                  THEN {[kind |-> "text", picks |-> <<>>, total_tokens |-> 0]}
                  ELSE Answers(others) :
           LET m == [l EXCEPT !.out = @ \o EdgesFor(src, others, a),
                              !.totalTokens = @ + a.total_tokens,
                              !.usages = IF Len(others) = 0 \/ a.kind = "null"
                                         THEN @ ELSE Append(@, a.total_tokens),
                              !.kinds = Append(@, IF Len(others) = 0 THEN "skip"
                                                  ELSE a.kind),
                              !.sent = Append(@, LimitedOthers(others)),
                              !.g = @ + 1]
           IN  IF l.g = Len(l.needing)
               THEN Goto(r, AfterGenerate(m))
               ELSE Goto(r, [pc |-> "generate", loc |-> m])
  /\ UNCHANGED <<today, gq, shop, product, recs, syncLog, cache, req, tx, resp,
                 qry, stat, h, sf, adm, far, cyc>>

\* one pass of `for (const rec of recs)`: INSERT ... ON CONFLICT DO UPDATE
SaveRec(r) ==
  /\ pc[r] = "saveRecs"
  /\ LET l == loc[r]
         rec == l.out[l.k]
     IN  /\ LockFree(r, KeyOf(Tenant(r), RecKey(rec.src, rec.tgt)))
         /\ tx' = [tx EXCEPT
              ![r].recPut = {f \in @ : ~SameEdge(f, rec)} \cup {rec},
              ![r].locks = @ \cup {KeyOf(Tenant(r), RecKey(rec.src, rec.tgt))}]
         /\ LET m == [l EXCEPT !.count = @ + 1, !.k = @ + 1]
            IN  IF l.k = Len(l.out)
                THEN Goto(r, AfterSave(m))
                ELSE Goto(r, [pc |-> "saveRecs", loc |-> m])
  /\ UNCHANGED <<today, gq, shop, product, recs, syncLog, cache, req, resp,
                 qry, stat, h, sf, adm, far, cyc>>

\* refresh: SELECT "refreshCount", "refreshMonth" ... FOR UPDATE
ShopLock(r) ==
  /\ pc[r] = "shopLock"
  /\ LockFree(r, KeyOf(Tenant(r), ShopKey))
  /\ tx' = [tx EXCEPT ![r].locks = @ \cup {KeyOf(Tenant(r), ShopKey)}]
  /\ LET l == loc[r]
         currentCycle == CurrentCycle(l.shop, l.now)
     IN  Goto(r, [pc |-> "shopUpdate",
                  loc |-> [l EXCEPT
                     !.newCount = NewRefreshCount(ShopView(r), currentCycle),
                     !.newMonth = currentCycle]])
  /\ UNCHANGED <<today, gq, shop, product, recs, syncLog, cache, req, resp,
                 qry, stat, h, sf, adm, far, cyc>>

\* UPDATE "Shop" SET ..., then cache.clear() and monitor.updateMetrics
ShopUpdate(r) ==
  /\ pc[r] = "shopUpdate"
  /\ LockFree(r, KeyOf(Tenant(r), ShopKey))
  /\ tx' = [tx EXCEPT ![r].shopRow = ShopAfterSync(ShopView(r), loc[r]),
                      ![r].shopDirty = TRUE,
                      ![r].locks = @ \cup {KeyOf(Tenant(r), ShopKey)}]
  /\ cache' = [k \in DOMAIN cache |-> [present |-> FALSE, data |-> {}]]
  /\ pc' = [pc EXCEPT ![r] = "monSuccess"]
  /\ UNCHANGED <<today, gq, shop, product, recs, syncLog, req, loc, resp,
                 qry, stat, h, sf, adm, far, cyc>>

\* monitor.success(): UPDATE "SyncLog" SET "status" = 'success'; then the
\* debit is entered for a free plan that used tokens
MonitorSuccess(r) ==
  /\ pc[r] = "monSuccess"
  /\ syncLog' = [syncLog EXCEPT ![r].status = "success", ![r].updates = @ + 1]
  /\ LET l == loc[r]
     IN  IF l.shop.plan = "free" /\ l.tokensUsed > 0
         THEN Goto(r, [pc |-> "debitGlobal", loc |-> [l EXCEPT !.today = today]])
         ELSE Goto(r, AfterDebit(l))
  /\ UNCHANGED <<today, gq, shop, product, recs, cache, req, tx, resp,
                 qry, stat, h, sf, adm, far, cyc>>

\* A debit sent through the pool, outside the run's transaction: not what the
\* handler does (it passes its client), kept to show that C19 sees the
\* transaction.
DebitGlobalThroughPool(r) ==
  /\ pc[r] = "debitGlobal"
  /\ PoolLockFree(GqKey)
  /\ gq' = DebitGlobalRow(gq, loc[r].tokensUsed, loc[r].today)
  /\ pc' = [pc EXCEPT ![r] = "debitShop"]
  /\ UNCHANGED <<today, shop, product, recs, syncLog, cache, req, loc, tx,
                 resp, qry, stat, h, sf, adm, far, cyc>>

\* updateTokenUsage: SELECT ... FROM "GlobalQuota" FOR UPDATE and the UPDATE
DebitGlobal(r) ==
  /\ pc[r] = "debitGlobal"
  /\ LockFree(r, GqKey)
  /\ tx' = [tx EXCEPT
       ![r].gqRow = DebitGlobalRow(GqView(r), loc[r].tokensUsed, loc[r].today),
       ![r].gqDirty = TRUE,
       ![r].locks = @ \cup {GqKey}]
  /\ pc' = [pc EXCEPT ![r] = "debitShop"]
  /\ UNCHANGED <<today, gq, shop, product, recs, syncLog, cache, req, loc,
                 resp, qry, stat, h, sf, adm, far, cyc>>

\* updateTokenUsage: SELECT ... FROM "Shop" FOR UPDATE and the UPDATE
DebitShop(r) ==
  /\ pc[r] = "debitShop"
  /\ LockFree(r, KeyOf(Tenant(r), ShopKey))
  /\ tx' = [tx EXCEPT
       ![r].shopRow = DebitShopRow(ShopView(r), loc[r].tokensUsed, loc[r].today),
       ![r].shopDirty = TRUE,
       ![r].locks = @ \cup {KeyOf(Tenant(r), ShopKey)}]
  /\ Goto(r, AfterDebit(loc[r]))
  /\ UNCHANGED <<today, gq, shop, product, recs, syncLog, cache, req, resp,
                 qry, stat, h, sf, adm, far, cyc>>

\* COMMIT, client.release() and res.json(responseData)
Commit(r) ==
  /\ pc[r] = "commit"
  /\ IF Tenant(r) = "B"
     THEN /\ far' = [shop |-> ShopView(r),
                     product |-> far.product \cup tx[r].prodIns,
                     recs |-> RecsView(r)]
          /\ UNCHANGED <<shop, product, recs>>
     ELSE /\ product' = product \cup tx[r].prodIns
          /\ recs' = RecsView(r)
          /\ shop' = ShopView(r)
          /\ far' = far
  /\ gq' = GqView(r)
  /\ tx' = [tx EXCEPT ![r] = NoTx]
  /\ resp' = [resp EXCEPT ![r] = 200]
  /\ pc' = [pc EXCEPT ![r] = "done"]
  /\ loc' = [loc EXCEPT ![r].client = "released"]
  /\ UNCHANGED <<today, syncLog, cache, req, qry, stat, h, sf, adm, cyc>>

\* The statement a run awaits inside `try` fails: control goes to `catch`
\* with the error of the statement.
ThrowPcs ==
  {"begin", "quota", "quotaReset", "refreshGate", "upsert", "deleteRecs", "diff",
   "saveRecs", "shopLock", "shopUpdate", "debitGlobal", "debitShop", "commit",
   "rejRollback"}

Throw(r) ==
  /\ pc[r] \in ThrowPcs
  /\ pc' = [pc EXCEPT ![r] = "catch"]
  /\ loc' = [loc EXCEPT ![r].error = "statement"]
  /\ UNCHANGED <<today, gq, shop, product, recs, syncLog, cache, req, tx,
                 resp, qry, stat, h, sf, adm, far, cyc>>

\* catch: await client.query('ROLLBACK')
CatchRollback(r) ==
  /\ pc[r] = "catch"
  /\ tx' = [tx EXCEPT ![r] = NoTx]
  /\ pc' = [pc EXCEPT ![r] = "catchFail"]
  /\ UNCHANGED <<today, gq, shop, product, recs, syncLog, cache, req, loc,
                 resp, qry, stat, h, sf, adm, far, cyc>>

\* catch: the ROLLBACK itself fails (the connection is gone); the handler's
\* promise rejects, the server ends the transaction of the lost session
RollbackThrows(r) ==
  /\ pc[r] = "catch"
  /\ tx' = [tx EXCEPT ![r] = NoTx]
  /\ pc' = [pc EXCEPT ![r] = "crashed"]
  /\ UNCHANGED <<today, gq, shop, product, recs, syncLog, cache, req, loc,
                 resp, qry, stat, h, sf, adm, far, cyc>>

\* catch: monitor.fail(e), client.release() and the 500 response
CatchFail(r) ==
  /\ pc[r] = "catchFail"
  /\ syncLog' = [syncLog EXCEPT ![r].status = "failed", ![r].updates = @ + 1]
  /\ resp' = [resp EXCEPT ![r] = 500]
  /\ pc' = [pc EXCEPT ![r] = "done"]
  /\ loc' = [loc EXCEPT ![r].client = "released"]
  /\ UNCHANGED <<today, gq, shop, product, recs, cache, req, tx,
                 qry, stat, h, sf, adm, far, cyc>>

\* ------------------------------------ GET /api/recommendations/:productId
NoEntry == [present |-> FALSE, data |-> {}]
StatusKey == "sync-status"
CacheKeys == ProductIds \cup {StatusKey}

\* cache.get(cacheKey): a fresh entry answers the request
QueryLookup ==
  /\ qry.pc = "idle"
  /\ IF cache[qry.pid].present
     THEN qry' = [qry EXCEPT !.pc = "done", !.data = cache[qry.pid].data,
                             !.hit = TRUE]
     ELSE qry' = [qry EXCEPT !.pc = "read"]
  /\ UNCHANGED <<today, gq, shop, product, recs, syncLog, cache, req, pc, loc,
                 tx, resp, stat, h, sf, adm, far, cyc>>

\* the two SELECTs through the pool: committed rows only
QueryRead ==
  /\ qry.pc = "read"
  /\ IF \E row \in product : row.productId = qry.pid
     THEN qry' = [qry EXCEPT !.pc = "set",
                    !.data = {<<e.tgt, e.reason>> : e \in {f \in recs : f.src = qry.pid}}]
     ELSE qry' = [qry EXCEPT !.pc = "done", !.data = {}]
  /\ UNCHANGED <<today, gq, shop, product, recs, syncLog, cache, req, pc, loc,
                 tx, resp, stat, h, sf, adm, far, cyc>>

\* cache.set(cacheKey, { data, expiry }) and the response
QuerySet ==
  /\ qry.pc = "set"
  /\ cache' = [cache EXCEPT ![qry.pid] = [present |-> TRUE, data |-> qry.data]]
  /\ qry' = [qry EXCEPT !.pc = "done"]
  /\ UNCHANGED <<today, gq, shop, product, recs, syncLog, req, pc, loc, tx,
                 resp, stat, h, sf, adm, far, cyc>>

\* An entry outlives its expiry: no lookup returns it and the sweep deletes it.
Expire(k) ==
  /\ cache[k].present
  /\ cache' = [cache EXCEPT ![k] = NoEntry]
  /\ UNCHANGED <<today, gq, shop, product, recs, syncLog, req, pc, loc, tx,
                 resp, qry, stat, h, sf, adm, far, cyc>>

\* ---------------------------------- GET /api/storefront/recommendations
\* API_LIMITS[plan] || API_LIMITS.free
ApiLimit(plan) == IF plan = "pro" THEN ApiLimitPro ELSE ApiLimitFree

\* currentCalls: the stored count, zero when it is not dated today
CountedCalls(row, day) ==
  IF row.apiCallsDate # day THEN 0 ELSE row.apiCallsToday

\* the limit check: 429 when currentCalls >= apiLimit
CallAllowed(row, day) == ~(CountedCalls(row, day) >= ApiLimit(row.plan))

\* UPDATE "Shop" SET "apiCallsToday" = CASE WHEN "apiCallsDate" = today THEN
\* "apiCallsToday" + 1 ELSE 1 END, "apiCallsDate" = today
CountCall(row, day) ==
  [row EXCEPT !.apiCallsToday = IF row.apiCallsDate = day THEN @ + 1 ELSE 1,
              !.apiCallsDate = day]

NoCall == [pc |-> "off", today |-> 0, upd |-> "none", resp |-> 0]

\* SELECT * FROM "Shop" WHERE "domain" = ... and the limit check on the row
\* read; an admitted call sends the counting UPDATE without awaiting it
StorefrontSelect(c) ==
  /\ sf[c].pc = "idle"
  /\ IF CallAllowed(shop, today)
     THEN sf' = [sf EXCEPT ![c].pc = "read", ![c].today = today,
                           ![c].upd = "sent"]
     ELSE sf' = [sf EXCEPT ![c].pc = "done", ![c].resp = 429]
  /\ UNCHANGED <<today, gq, shop, product, recs, syncLog, cache, req, pc, loc,
                 tx, resp, qry, stat, h, adm, far, cyc>>

\* the counting UPDATE runs (through the pool, at some time after it was sent)
StorefrontCount(c) ==
  /\ sf[c].upd = "sent"
  /\ PoolLockFree(ShopKey)
  /\ shop' = CountCall(shop, sf[c].today)
  /\ sf' = [sf EXCEPT ![c].upd = "done"]
  /\ UNCHANGED <<today, gq, product, recs, syncLog, cache, req, pc, loc, tx,
                 resp, qry, stat, h, adm, far, cyc>>

\* the counting UPDATE fails: .catch logs the error
StorefrontCountFails(c) ==
  /\ sf[c].upd = "sent"
  /\ sf' = [sf EXCEPT ![c].upd = "failed"]
  /\ UNCHANGED <<today, gq, shop, product, recs, syncLog, cache, req, pc, loc,
                 tx, resp, qry, stat, h, adm, far, cyc>>

\* the SELECTs of the product and of its recommendations, and the response
StorefrontAnswer(c) ==
  /\ sf[c].pc = "read"
  /\ sf' = [sf EXCEPT ![c].pc = "done", ![c].resp = 200]
  /\ UNCHANGED <<today, gq, shop, product, recs, syncLog, cache, req, pc, loc,
                 tx, resp, qry, stat, h, adm, far, cyc>>

\* ------------------------------- plan changes, deletes and admin requests
\* One request of the tenant beside its sync runs: kind "plan" (PUT
\* /api/shops/:domain/plan with body.plan = plan), "wipe" (DELETE
\* /api/recommendations or DELETE /api/products), "reset" (POST
\* /api/admin/shops/:shopId/reset-sync), "trigger" (POST
\* /api/admin/shops/:shopId/trigger-sync).  recDel and prodDel are the rows
\* its open transaction has deleted, shopRow the Shop row it has written.
NoAdmin ==
  [kind |-> "none", pc |-> "off", plan |-> "", oldPlan |-> "", locks |-> {},
   recDel |-> {}, prodDel |-> {}, shopRow |-> NewShop, resp |-> 0]
Admin(kind, plan) == [NoAdmin EXCEPT !.kind = kind, !.pc = "idle", !.plan = plan]

RecKeys(edges) == {RecKey(e.src, e.tgt) : e \in edges}
ProdKeys(rows) == {ProdKey(row.productId) : row \in rows}
\* ON DELETE CASCADE of "sourceId" and "targetId": the edges that go with the
\* Product rows `rows`
Cascade(edges, rows) ==
  {e \in edges : \E row \in rows : row.productId \in {e.src, e.tgt}}

\* plan: BEGIN and SELECT * FROM "Shop" WHERE "domain" = ...
PlanSelect ==
  /\ adm.kind = "plan" /\ adm.pc = "idle"
  /\ adm' = [adm EXCEPT !.pc = "update", !.oldPlan = shop.plan]
  /\ UNCHANGED <<today, gq, shop, product, recs, syncLog, cache, req, pc, loc,
                 tx, resp, qry, stat, h, sf, far, cyc>>

\* An upgrade that clears the counter and keeps the cycle key: not what the
\* UPDATE does, kept to show that C35 sees the two columns written together.
PlanRowKeepsCycleKey(row, oldPlan, plan) ==
  IF oldPlan = "free" /\ plan \in {"pro", "max"}
  THEN [row EXCEPT !.plan = plan, !.refreshCount = 0]
  ELSE [row EXCEPT !.plan = plan]

\* plan: the row after UPDATE "Shop" SET "plan" = ..., and on an upgrade
\* from free "refreshCount" = 0, "refreshMonth" = NULL
PlanRow(row, oldPlan, plan) ==
  IF oldPlan = "free" /\ plan \in {"pro", "max"}
  THEN [row EXCEPT !.plan = plan, !.refreshCount = 0, !.refreshMonth = NoKey]
  ELSE [row EXCEPT !.plan = plan]

\* plan: the UPDATE on the client
PlanUpdate ==
  /\ adm.kind = "plan" /\ adm.pc = "update"
  /\ RunsLockFree(ShopKey)
  /\ adm' = [adm EXCEPT !.pc = "commit", !.locks = {ShopKey},
                        !.shopRow = PlanRow(shop, adm.oldPlan, adm.plan)]
  /\ UNCHANGED <<today, gq, shop, product, recs, syncLog, cache, req, pc, loc,
                 tx, resp, qry, stat, h, sf, far, cyc>>

\* plan: COMMIT, cache.delete of the sync-status entry and the response
PlanCommit ==
  /\ adm.kind = "plan" /\ adm.pc = "commit"
  /\ shop' = adm.shopRow
  /\ cache' = [cache EXCEPT ![StatusKey] = NoEntry]
  /\ adm' = [adm EXCEPT !.pc = "done", !.locks = {}, !.resp = 200]
  /\ UNCHANGED <<today, gq, product, recs, syncLog, req, pc, loc, tx, resp,
                 qry, stat, h, sf, far, cyc>>

\* wipe: BEGIN and DELETE FROM "Recommendation" WHERE "shopId" = ...
WipeRecs ==
  /\ adm.kind = "wipe" /\ adm.pc = "idle"
  /\ \A k \in RecKeys(recs) : RunsLockFree(k)
  /\ adm' = [adm EXCEPT !.pc = "products", !.recDel = recs,
                        !.locks = RecKeys(recs)]
  /\ UNCHANGED <<today, gq, shop, product, recs, syncLog, cache, req, pc, loc,
                 tx, resp, qry, stat, h, sf, far, cyc>>

\* wipe: DELETE FROM "Product" WHERE "shopId" = ..., with its cascade
WipeProducts ==
  /\ adm.kind = "wipe" /\ adm.pc = "products"
  /\ \A k \in ProdKeys(product) \cup RecKeys(Cascade(recs, product)) :
       RunsLockFree(k)
  /\ adm' = [adm EXCEPT !.pc = "commit", !.prodDel = product,
                        !.recDel = @ \cup Cascade(recs, product),
                        !.locks = @ \cup ProdKeys(product)
                                    \cup RecKeys(Cascade(recs, product))]
  /\ UNCHANGED <<today, gq, shop, product, recs, syncLog, cache, req, pc, loc,
                 tx, resp, qry, stat, h, sf, far, cyc>>

\* wipe: COMMIT, cache.clear() and the response
WipeCommit ==
  /\ adm.kind = "wipe" /\ adm.pc = "commit"
  /\ recs' = recs \ adm.recDel
  /\ product' = product \ adm.prodDel
  /\ cache' = [k \in DOMAIN cache |-> NoEntry]
  /\ adm' = [adm EXCEPT !.pc = "done", !.locks = {}, !.recDel = {},
                        !.prodDel = {}, !.resp = 200]
  /\ UNCHANGED <<today, gq, shop, syncLog, req, pc, loc, tx, resp, qry, stat,
                 h, sf, far, cyc>>

\* reset-sync: SELECT * FROM "Shop" and DELETE FROM "Recommendation" through
\* the pool
ResetSyncRecs ==
  /\ adm.kind = "reset" /\ adm.pc = "idle"
  /\ \A k \in RecKeys(recs) : RunsLockFree(k)
  /\ recs' = {}
  /\ adm' = [adm EXCEPT !.pc = "products"]
  /\ UNCHANGED <<today, gq, shop, product, syncLog, cache, req, pc, loc, tx,
                 resp, qry, stat, h, sf, far, cyc>>

\* A delete of the Product rows that leaves the edges: not what the
\* database does (ON DELETE CASCADE), kept to show that C36 sees the cascade.
ResetSyncProductsNoCascade ==
  /\ adm.kind = "reset" /\ adm.pc = "products"
  /\ \A k \in ProdKeys(product) : RunsLockFree(k)
  /\ product' = {}
  /\ adm' = [adm EXCEPT !.pc = "shop"]
  /\ UNCHANGED <<today, gq, shop, recs, syncLog, cache, req, pc, loc, tx,
                 resp, qry, stat, h, sf, far, cyc>>

\* reset-sync: DELETE FROM "Product" through the pool, with its cascade
ResetSyncProducts ==
  /\ adm.kind = "reset" /\ adm.pc = "products"
  /\ \A k \in ProdKeys(product) \cup RecKeys(Cascade(recs, product)) :
       RunsLockFree(k)
  /\ product' = {}
  /\ recs' = recs \ Cascade(recs, product)
  /\ adm' = [adm EXCEPT !.pc = "shop"]
  /\ UNCHANGED <<today, gq, shop, syncLog, cache, req, pc, loc, tx, resp, qry,
                 stat, h, sf, far, cyc>>

\* reset-sync: UPDATE "Shop" SET "productCount" = 0, "initialSyncDone" =
\* false, "lastRefreshAt" = NULL through the pool, and the response
ResetSyncShop ==
  /\ adm.kind = "reset" /\ adm.pc = "shop"
  /\ RunsLockFree(ShopKey)
  /\ shop' = [shop EXCEPT !.productCount = 0, !.initialSyncDone = FALSE,
                          !.lastRefreshAt = NoDate]
  /\ adm' = [adm EXCEPT !.pc = "done", !.resp = 200]
  /\ UNCHANGED <<today, gq, product, recs, syncLog, cache, req, pc, loc, tx,
                 resp, qry, stat, h, sf, far, cyc>>

\* trigger-sync: SELECT * FROM "Shop" and the permission test
TriggerSyncSelect ==
  /\ adm.kind = "trigger" /\ adm.pc = "idle"
  /\ IF shop.isSyncEnabled = FALSE
     THEN adm' = [adm EXCEPT !.pc = "done", !.resp = 403]
     ELSE adm' = [adm EXCEPT !.pc = "update"]
  /\ UNCHANGED <<today, gq, shop, product, recs, syncLog, cache, req, pc, loc,
                 tx, resp, qry, stat, h, sf, far, cyc>>

\* trigger-sync: UPDATE "Shop" SET "initialSyncDone" = false through the pool
TriggerSyncUpdate ==
  /\ adm.kind = "trigger" /\ adm.pc = "update"
  /\ RunsLockFree(ShopKey)
  /\ shop' = [shop EXCEPT !.initialSyncDone = FALSE]
  /\ adm' = [adm EXCEPT !.pc = "done", !.resp = 200]
  /\ UNCHANGED <<today, gq, product, recs, syncLog, cache, req, pc, loc, tx,
                 resp, qry, stat, h, sf, far, cyc>>

\* a statement of the request fails: catch, ROLLBACK where a transaction is
\* open, and the 500 response
AdminThrow ==
  /\ adm.pc \notin {"off", "done"}
  /\ adm' = [adm EXCEPT !.pc = "done", !.locks = {}, !.recDel = {},
                        !.prodDel = {}, !.resp = 500]
  /\ UNCHANGED <<today, gq, shop, product, recs, syncLog, cache, req, pc, loc,
                 tx, resp, qry, stat, h, sf, far, cyc>>

AdminStep ==
  \/ PlanSelect \/ PlanUpdate \/ PlanCommit
  \/ WipeRecs \/ WipeProducts \/ WipeCommit
  \/ ResetSyncRecs \/ ResetSyncProducts \/ ResetSyncShop
  \/ TriggerSyncSelect \/ TriggerSyncUpdate \/ AdminThrow

\* ------------------------------------------- GET /api/shops/sync-status
\* auth, cache.get and canRefresh; a free plan goes on to checkDailyTokenQuota
StatusStart ==
  /\ stat.pc = "idle"
  /\ IF cache[StatusKey].present
     THEN stat' = [stat EXCEPT !.pc = "done"]
     ELSE IF shop.plan = "free"
     THEN stat' = [stat EXCEPT !.pc = "quota", !.today = today]
     ELSE stat' = [stat EXCEPT !.pc = "finish"]
  /\ UNCHANGED <<today, gq, shop, product, recs, syncLog, cache, req, pc, loc,
                 tx, resp, qry, h, sf, adm, far, cyc>>

\* checkDailyTokenQuota: SELECT * FROM "GlobalQuota" through the pool
StatusQuotaSelect ==
  /\ stat.pc = "quota"
  /\ stat' = [stat EXCEPT !.gqRead = gq,
                          !.pc = IF gq.quotaResetDate # stat.today THEN "reset"
                                 ELSE "finish"]
  /\ UNCHANGED <<today, gq, shop, product, recs, syncLog, cache, req, pc, loc,
                 tx, resp, qry, h, sf, adm, far, cyc>>

\* checkDailyTokenQuota: the lazy reset UPDATE through the pool
StatusQuotaReset ==
  /\ stat.pc = "reset"
  /\ PoolLockFree(GqKey)
  /\ gq' = LazyReset(gq, stat.today)
  /\ stat' = [stat EXCEPT !.pc = "finish"]
  /\ UNCHANGED <<today, shop, product, recs, syncLog, cache, req, pc, loc, tx,
                 resp, qry, h, sf, adm, far, cyc>>

\* SELECT ... FROM "SyncLog" WHERE "status" = 'started', then cache.set
StatusFinish ==
  /\ stat.pc = "finish"
  /\ LET isSyncing == \E r \in Runs : Tenant(r) = "A" /\ syncLog[r].status = "started"
     IN  cache' = [cache EXCEPT ![StatusKey] =
           [present |-> TRUE,
            data |-> {<<"isSyncing", IF isSyncing THEN "true" ELSE "false">>}]]
  /\ stat' = [stat EXCEPT !.pc = "done"]
  /\ UNCHANGED <<today, gq, shop, product, recs, syncLog, req, pc, loc, tx,
                 resp, qry, h, sf, adm, far, cyc>>

\* ------------------------------------------------------------ initial states
\* Shop rows that registration, plan changes, admin switches and earlier runs
\* leave behind.
Synced(row) == [row EXCEPT !.initialSyncDone = TRUE, !.lastRefreshAt = Yesterday0,
                           !.productCount = 2]

GateShops ==
  {[NewShop EXCEPT !.isSyncEnabled = FALSE],
   [NewShop EXCEPT !.isDevelopmentStore = TRUE],
   [NewShop EXCEPT !.isDevelopmentStore = TRUE, !.isWhitelisted = TRUE],
   Synced([NewShop EXCEPT !.isDevelopmentStore = TRUE]),
   \* PUT /api/admin/shops/:shopId/token-quota has set a budget the tenant
   \* has used up today
   Synced([NewShop EXCEPT !.dailyTokenQuota = SmallQuota,
                          !.tokensUsedToday = SmallQuota,
                          !.quotaResetDate = Today0])}

FreeShops ==
  {NewShop, Synced(NewShop),
   Synced([NewShop EXCEPT !.tokensUsedToday = 1, !.quotaResetDate = Yesterday0]),
   Synced([NewShop EXCEPT !.tokensUsedToday = 1, !.quotaResetDate = Today0])}

\* the refresh counter and cycle key a paid tenant with anchor a can hold
PaidCounters(a) ==
  {<<0, NoKey>>,
   <<RefreshLimitPro, MonthKey(Yesterday0)>>,
   <<RefreshLimitPro - 1, CurrentCycle([subscriptionStartedAt |-> a], Today0)>>,
   <<RefreshLimitPro, CurrentCycle([subscriptionStartedAt |-> a], Today0)>>}

PaidShops ==
  UNION {{Synced([NewShop EXCEPT !.plan = "pro", !.subscriptionStartedAt = a,
                                 !.refreshCount = c[1], !.refreshMonth = c[2]]) :
            c \in PaidCounters(a)} : a \in {NoDate, Yesterday0}}
  \cup {[NewShop EXCEPT !.plan = "max"]}

GlobalQuotas ==
  {GqRow(DefaultDailyTokenQuota, 0, Today0),
   GqRow(SmallQuota, 0, Yesterday0),
   GqRow(SmallQuota, SmallQuota, Yesterday0),
   GqRow(SmallQuota, SmallQuota, Today0),
   GqRow(SmallQuota, 1, Today0)}

Hints == {"auto", "refresh", "full"}
Payloads == {<<>>, <<"p1", "p2">>, <<"p2">>, <<"p1", "noid">>}
SyncRequests ==
  {SyncRequest(hint, regenerate, products) :
     hint \in Hints, regenerate \in BOOLEAN, products \in Payloads}

OldEdges == {Edge("p1", "p2", "Perfect match")}
\* the Product rows an earlier sync of <<"p1", "p2">> stored
OldProducts == {ProductRow("p1", <<0, 1>>), ProductRow("p2", <<0, 2>>)}

\* The requests of a scenario: run 1 serves a, run 2 serves b, the others none.
Batch(a, b) == [r \in Runs |-> IF r = 1 THEN a ELSE IF r = 2 THEN b ELSE NoRequest]

\* the stored count of storefront calls a tenant can hold
CallCounters ==
  {<<ApiLimitFree - 1, Today0>>, <<ApiLimitFree, Today0>>,
   <<ApiLimitFree, Yesterday0>>, <<ApiLimitFree - 2, Today0>>,
   <<ApiLimitPro - 1, Today0>>, <<ApiLimitPro, Today0>>, <<0, NoDate>>}

CalledShops ==
  {[Synced([NewShop EXCEPT !.plan = plan]) EXCEPT
      !.apiCallsToday = c[1], !.apiCallsDate = c[2]] :
     plan \in {"free", "pro", "max"}, c \in CallCounters}

\* the rows an earlier sync of p2 and the catalog stored, with an edge from
\* every one of them
CatalogProducts ==
  {ProductRow("p2", <<0, 0>>)}
  \cup {ProductRow(CatalogIds[i], <<0, i>>) : i \in 1..Len(CatalogIds)}
CatalogEdges ==
  {Edge("p2", CatalogIds[1], "Perfect match")}
  \cup {Edge(CatalogIds[i], "p2", "Perfect match") : i \in 1..Len(CatalogIds)}

\* the rows of a second tenant that has not synced
NoFar == [shop |-> NewShop, product |-> {}, recs |-> {}]

InitBase(row, quota, batch, query, status, rows, edges, admin, second, calc) ==
  /\ cyc = calc
  /\ adm = admin
  /\ far = second
  /\ sf = [c \in Calls |-> IF batch[1].kind = "none"
                           THEN [NoCall EXCEPT !.pc = "idle"] ELSE NoCall]
  /\ today = Today0
  /\ gq = quota
  /\ shop = row
  /\ product = rows
  /\ recs = edges
  /\ syncLog = [r \in Runs |-> [status |-> "none", mode |-> "", updates |-> 0]]
  /\ cache = [k \in CacheKeys |-> NoEntry]
  /\ req = batch
  /\ pc = [r \in Runs |-> "idle"]
  /\ loc = [r \in Runs |-> NoLocals]
  /\ tx = [r \in Runs |-> NoTx]
  /\ resp = [r \in Runs |-> 0]
  /\ qry = [pc |-> IF query = "" THEN "off" ELSE "idle", pid |-> query,
            data |-> {}, hit |-> FALSE]
  /\ stat = [pc |-> IF status THEN "idle" ELSE "off", today |-> 0,
             gqRead |-> GqRow(0, 0, NoDate)]
  /\ h = [shop |-> row, gq |-> quota, product |-> rows, recs |-> edges,
          far |-> second]

InitAll(row, quota, batch, query, status, rows, edges, admin, second) ==
  InitBase(row, quota, batch, query, status, rows, edges, admin, second,
           NoCycle)

InitStored(row, quota, batch, query, status, rows, edges) ==
  InitAll(row, quota, batch, query, status, rows, edges, NoAdmin, NoFar)

InitWith(row, quota, batch, query, status) ==
  InitStored(row, quota, batch, query, status,
             IF row.initialSyncDone THEN OldProducts ELSE {},
             IF row.initialSyncDone THEN OldEdges ELSE {})

\* One sync request: alone for every tenant state, global quota and request;
\* beside a recommendation query; beside a sync-status request; alone with a
\* payload that lists its products twice; alone with a payload of men's and
\* women's products; alone without a valid API key; no sync request but
\* storefront queries of one tenant; and alone with one new product added to
\* a stored catalog of more candidates than a prompt lists.
Init ==
  \/ \E row \in GateShops \cup FreeShops \cup PaidShops, quota \in GlobalQuotas,
        a \in SyncRequests :
       InitWith(row, quota, Batch(a, NoRequest), "", FALSE)
  \/ \E row \in FreeShops \cup PaidShops, hint \in {"auto", "refresh"},
        products \in {<<"p1", "p2">>, <<"p2">>}, pid \in ProductIds :
       InitWith(row, GqRow(DefaultDailyTokenQuota, 0, Today0),
                Batch(SyncRequest(hint, FALSE, products), NoRequest), pid, FALSE)
  \/ \E row \in FreeShops \cup PaidShops, quota \in GlobalQuotas,
        products \in {<<>>, <<"p1", "p2">>, <<"p2">>} :
       InitWith(row, quota, Batch(SyncRequest("auto", FALSE, products), NoRequest),
                "", TRUE)
  \/ \E row \in {NewShop, Synced(NewShop)},
        products \in {<<"p2", "p2">>, <<"p1", "p2", "p1", "p2">>} :
       InitWith(row, GqRow(DefaultDailyTokenQuota, 0, Today0),
                Batch(SyncRequest("auto", FALSE, products), NoRequest), "", FALSE)
  \/ \E products \in {<<"m1", "f1", "p2">>, <<"m1", "f1">>, <<"f1", "h1", "p1">>,
                       <<"o1", "o2">>} :
       InitWith([NewShop EXCEPT !.plan = "max"],
                GqRow(DefaultDailyTokenQuota, 0, Today0),
                Batch(SyncRequest("auto", FALSE, products), NoRequest), "", FALSE)
  \/ \E row \in {NewShop, Synced(NewShop)}, key \in {"none", "bad"},
        hint \in {"auto", "refresh"}, products \in {<<>>, <<"p1", "p2">>} :
       InitWith(row, GqRow(SmallQuota, SmallQuota, Yesterday0),
                Batch([SyncRequest(hint, FALSE, products) EXCEPT !.key = key],
                      NoRequest), "", FALSE)
  \/ \E row \in CalledShops :
       InitWith(row, GqRow(DefaultDailyTokenQuota, 0, Today0),
                Batch(NoRequest, NoRequest), "", FALSE)
  \/ InitStored(Synced([NewShop EXCEPT !.plan = "max"]),
                GqRow(DefaultDailyTokenQuota, 0, Today0),
                Batch(SyncRequest("auto", FALSE, <<"p1">> \o CatalogIds), NoRequest),
                "", FALSE, CatalogProducts, CatalogEdges)

\* Two sync requests of one tenant in flight together: two incremental runs
\* of a free tenant, two refresh runs of a paid tenant, and two first syncs
\* of a tenant that has no product stored.
InitTwo ==
  \/ \E row \in FreeShops \ {NewShop},
        quota \in {GqRow(SmallQuota, 0, Yesterday0), GqRow(SmallQuota, 1, Today0),
                   GqRow(SmallQuota, SmallQuota, Today0)} :
       InitWith(row, quota, Batch(SyncRequest("auto", FALSE, <<"p1", "p2">>),
                                  SyncRequest("auto", FALSE, <<"p2", "p1">>)),
                "", FALSE)
  \/ \E row \in PaidShops \ {[NewShop EXCEPT !.plan = "max"]} :
       InitWith(row, GqRow(DefaultDailyTokenQuota, 0, Today0),
                Batch(SyncRequest("refresh", FALSE, <<"p2">>),
                      SyncRequest("refresh", FALSE, <<"p2">>)), "", FALSE)
  \/ \E pa \in {<<"p2">>, <<"p1">>}, pb \in {<<"p2">>, <<"p2", "p1">>} :
       InitWith([NewShop EXCEPT !.plan = "max"],
                GqRow(DefaultDailyTokenQuota, 0, Today0),
                Batch(SyncRequest("auto", FALSE, pa),
                      SyncRequest("auto", FALSE, pb)), "", FALSE)

SyncStep(r) ==
  \/ Auth(r) \/ MonitorStart(r) \/ Begin(r) \/ RejectFail(r) \/ RejectRollback(r)
  \/ QuotaSelect(r) \/ QuotaReset(r) \/ RefreshGate(r) \/ UpsertProduct(r)
  \/ DeleteRecs(r) \/ Diff(r) \/ GenerateOne(r) \/ SaveRec(r) \/ ShopLock(r)
  \/ ShopUpdate(r) \/ MonitorSuccess(r) \/ DebitGlobal(r) \/ DebitShop(r)
  \/ Commit(r) \/ Throw(r) \/ CatchRollback(r) \/ RollbackThrows(r)
  \/ CatchFail(r)

Next ==
  \/ \E r \in Runs : SyncStep(r)
  \/ QueryLookup \/ QueryRead \/ QuerySet
  \/ \E k \in CacheKeys : Expire(k)
  \/ StatusStart \/ StatusQuotaSelect \/ StatusQuotaReset \/ StatusFinish
  \/ \E c \in Calls : \/ StorefrontSelect(c) \/ StorefrontCount(c)
                      \/ StorefrontCountFails(c) \/ StorefrontAnswer(c)

Spec == Init /\ [][Next]_vars

NextSync == \E r \in Runs : SyncStep(r)

\* ------------------------------------------------- the date and the database
\* midnight UTC passes
Tick ==
  /\ today < Today0 + MaxDayChanges
  /\ today' = today + 1
  /\ UNCHANGED <<gq, shop, product, recs, syncLog, cache, req, pc, loc, tx,
                 resp, qry, stat, h, sf, adm, far, cyc>>

\* the row locks the statement run r's client is about to send asks for
Needs(r) ==
  CASE pc[r] \in {"refreshGate", "shopLock", "shopUpdate", "debitShop"} ->
         {KeyOf(Tenant(r), ShopKey)}
    [] pc[r] = "debitGlobal" -> {GqKey}
    [] pc[r] = "upsert" ->
         {KeyOf(Tenant(r), ProdKey(p)) :
            p \in {req[r].products[loc[r].i]} \ {"noid"}}
    [] pc[r] = "deleteRecs" ->
         {KeyOf(Tenant(r), RecKey(e.src, e.tgt)) : e \in RecRows(Tenant(r))}
    [] pc[r] = "saveRecs" ->
         {KeyOf(Tenant(r),
                RecKey(loc[r].out[loc[r].k].src, loc[r].out[loc[r].k].tgt))}
    [] OTHER -> {}

\* the runs whose transaction holds a lock run r's client waits for
Holders(r) == {o \in Runs \ {r} : Needs(r) \cap tx[o].locks # {}}

\* PostgreSQL's deadlock detector: the clients of two runs wait for each
\* other, the statement of one of them fails with a deadlock error
DeadlockAbort(r) ==
  /\ \E o \in Holders(r) : r \in Holders(o)
  /\ pc' = [pc EXCEPT ![r] = "catch"]
  /\ loc' = [loc EXCEPT ![r].error = "deadlock"]
  /\ UNCHANGED <<today, gq, shop, product, recs, syncLog, cache, req, tx,
                 resp, qry, stat, h, sf, adm, far, cyc>>

\* Sync runs and sync-status reads of one tenant while the date changes: two
\* runs of a free tenant that list the same products in opposite order, a
\* refresh run of a paid tenant, and a run of a free tenant beside a
\* sync-status read.
InitDay ==
  \/ \E quota \in {GqRow(DefaultDailyTokenQuota, 0, Today0),
                    GqRow(SmallQuota, SmallQuota, Today0)} :
       InitWith(Synced(NewShop), quota,
                Batch(SyncRequest("auto", FALSE, <<"p1", "p2">>),
                      SyncRequest("auto", FALSE, <<"p2", "p1">>)), "", FALSE)
  \/ InitWith(Synced([NewShop EXCEPT !.plan = "pro"]),
              GqRow(DefaultDailyTokenQuota, 0, Today0),
              Batch(SyncRequest("refresh", FALSE, <<"p2">>), NoRequest), "", FALSE)
  \/ InitWith(Synced(NewShop), GqRow(SmallQuota, 1, Yesterday0),
              Batch(SyncRequest("auto", FALSE, <<"p1", "p2">>), NoRequest), "", TRUE)

NextDay ==
  \/ \E r \in Runs : SyncStep(r) \/ DeadlockAbort(r)
  \/ StatusStart \/ StatusQuotaSelect \/ StatusQuotaReset \/ StatusFinish
  \/ Tick

\* what a run does when its statement does not fail: every step but Throw
\* and RollbackThrows
Progress(r) ==
  \/ Auth(r) \/ MonitorStart(r) \/ Begin(r) \/ RejectFail(r) \/ RejectRollback(r)
  \/ QuotaSelect(r) \/ QuotaReset(r) \/ RefreshGate(r) \/ UpsertProduct(r)
  \/ DeleteRecs(r) \/ Diff(r) \/ GenerateOne(r) \/ SaveRec(r) \/ ShopLock(r)
  \/ ShopUpdate(r) \/ MonitorSuccess(r) \/ DebitGlobal(r) \/ DebitShop(r)
  \/ Commit(r) \/ CatchRollback(r) \/ CatchFail(r) \/ DeadlockAbort(r)

\* Every request goes on as long as the database answers its statement, and
\* the deadlock detector does fire; nothing says that a statement fails or
\* that the date changes.
SpecDay ==
  /\ InitDay /\ [][NextDay]_vars
  /\ \A r \in Runs : WF_vars(Progress(r))
  /\ WF_vars(StatusStart \/ StatusQuotaSelect \/ StatusQuotaReset \/ StatusFinish)

SpecTwo == InitTwo /\ [][NextSync]_vars

\* ------------------------------------ sync runs beside the other requests
\* A sync run of a tenant beside a delete, an admin reset-sync or
\* trigger-sync: a first sync and an incremental run of a free tenant, a
\* refresh run of a paid tenant; a refresh request beside a plan change: of
\* a free tenant that holds the count of an earlier paid period, and of a
\* paid tenant; and a run of tenant A beside a run of tenant B that submits
\* products of the same ids: an incremental run beside a first sync, both of
\* free tenants, and a refresh run of a paid tenant beside an incremental
\* run.
InitOps ==
  \/ \E row \in {NewShop, Synced(NewShop)}, kind \in {"wipe", "reset", "trigger"} :
       InitAll(row, GqRow(SmallQuota, 1, Yesterday0),
               Batch(SyncRequest("auto", FALSE, <<"p1", "p2">>), NoRequest),
               "", FALSE,
               IF row.initialSyncDone THEN OldProducts ELSE {},
               IF row.initialSyncDone THEN OldEdges ELSE {},
               Admin(kind, ""), NoFar)
  \/ \E kind \in {"wipe", "reset"} :
       InitAll(Synced([NewShop EXCEPT !.plan = "pro",
                                      !.refreshCount = RefreshLimitPro - 1,
                                      !.refreshMonth = MonthKey(Today0)]),
               GqRow(DefaultDailyTokenQuota, 0, Today0),
               Batch(SyncRequest("refresh", FALSE, <<"p1", "p2">>), NoRequest),
               "", FALSE, OldProducts, OldEdges, Admin(kind, ""), NoFar)
  \/ \E was \in {"free", "pro"}, plan \in {"free", "pro", "max"} :
       InitAll(Synced([NewShop EXCEPT !.plan = was,
                                      !.refreshCount = RefreshLimitPro,
                                      !.refreshMonth = MonthKey(Today0)]),
               GqRow(DefaultDailyTokenQuota, 0, Today0),
               Batch(SyncRequest("refresh", FALSE, <<"p2">>), NoRequest),
               "", FALSE, OldProducts, OldEdges, Admin("plan", plan), NoFar)
  \/ InitAll(Synced(NewShop), GqRow(SmallQuota, 0, Today0),
             Batch(SyncRequest("auto", FALSE, <<"p1", "p2">>),
                   [SyncRequest("auto", FALSE, <<"p2", "p1">>) EXCEPT
                      !.tenant = "B"]),
             "", FALSE, OldProducts, OldEdges, NoAdmin, NoFar)
  \/ InitAll(Synced([NewShop EXCEPT !.plan = "pro"]),
             GqRow(DefaultDailyTokenQuota, 0, Today0),
             Batch(SyncRequest("refresh", FALSE, <<"p2">>),
                   [SyncRequest("auto", FALSE, <<"p2", "p1">>) EXCEPT
                      !.tenant = "B"]),
             "", FALSE, OldProducts, OldEdges, NoAdmin,
             [shop |-> Synced(NewShop), product |-> OldProducts,
              recs |-> OldEdges])

NextOps ==
  \/ \E r \in Runs : SyncStep(r)
  \/ AdminStep

SpecOps == InitOps /\ [][NextOps]_vars

\* ===================================================================== claims
\* the handler invocation r has ended, or serves no request
Finished(r) == req[r].kind = "none" \/ pc[r] \in {"done", "crashed"}
GateRejected(r) == pc[r] = "done" /\ resp[r] \in {400, 403, 429}
TenantRowsAsBefore == product = h.product /\ recs = h.recs /\ shop = h.shop

\* ------------------------------------------------------------------------ C1
\* C1 as stated: once a sync request has been rejected at a gate, the
\* Product, Recommendation, Shop and GlobalQuota rows hold exactly the values
\* they held before the request (no sync-status request is in flight).
C1_RejectionLeavesRowsAsBefore ==
  \A r \in Runs :
    GateRejected(r) /\ stat.pc = "off" => TenantRowsAsBefore /\ gq = h.gq

\* C1, amended: once a sync request has been rejected at a gate, the Product,
\* Recommendation and Shop rows hold the values they held before the request;
\* the GlobalQuota row is as before or, when its quotaResetDate was not today
\* and the tenant is on the free plan, has been reset for the new day
\* (tokensUsedToday = 0, quotaResetDate = today) by the token gate's check.
C1_RejectionLeavesOnlyLazyReset ==
  \A r \in Runs :
    GateRejected(r) /\ stat.pc = "off" =>
      /\ TenantRowsAsBefore
      /\ \/ gq = h.gq
         \/ /\ h.gq.quotaResetDate # today
            /\ h.shop.plan = "free"
            /\ gq = [h.gq EXCEPT !.tokensUsedToday = 0, !.quotaResetDate = today]
      /\ syncLog[r].status = "failed"

\* a request rejected by the refresh gate after the token gate reset a stale
\* GlobalQuota row that held a count
C1_Witness ==
  \E r \in Runs :
    /\ GateRejected(r) /\ stat.pc = "off"
    /\ loc[r].reject = "REFRESH_LIMIT"
    /\ h.gq.quotaResetDate # today /\ h.gq.tokensUsedToday > 0
    /\ gq.quotaResetDate = today /\ gq.tokensUsedToday = 0

\* ------------------------------------------------------------------------ C2
HandlerThrew(r) == Finished(r) /\ loc[r].actualMode # "" /\ resp[r] # 200

\* C2: a run that was admitted and then hit an exception ends with none of
\* its product, recommendation, tenant-state or quota writes stored, with its
\* audit record failed and with a 500 response.
C2_ExceptionRollsBackFailsAnd500 ==
  \A r \in Runs :
    HandlerThrew(r) /\ stat.pc = "off" =>
      /\ TenantRowsAsBefore
      /\ gq.tokensUsedToday = CountedRow(h.gq, gq.quotaResetDate).tokensUsedToday
      /\ syncLog[r].status = "failed"
      /\ resp[r] = 500

\* ------------------------------------------------------------------------ C3
\* the usage a run reported and debited: that of a committed free-plan run
Usage == [r \in Runs |->
            IF resp[r] = 200 /\ loc[r].shop.plan = "free" THEN loc[r].tokensUsed
            ELSE 0]

\* C3 as stated: after all concurrent free-plan runs of a tenant have
\* committed, the stored Shop.tokensUsedToday equals its value before the
\* batch plus the sum of the runs' usage.
C3_ShopCounterIsBeforePlusSum ==
  (h.shop.plan = "free" /\ \A r \in Runs : resp[r] = 200) =>
    shop.tokensUsedToday = h.shop.tokensUsedToday + SumOver(Runs, Usage)

\* C3, amended: after all concurrent free-plan runs of a tenant have ended,
\* the stored Shop.tokensUsedToday equals the sum of the usage of the runs
\* that committed, added to the value stored before the batch when that value
\* was already dated today (or when no run used a token, in which case the
\* row is not written), and added to zero when it was dated an earlier day.
C3_ShopCounterIsTodaysBasePlusSum ==
  (h.shop.plan = "free" /\ \A r \in Runs : Finished(r)) =>
    LET sum == SumOver(Runs, Usage)
        base == IF h.shop.quotaResetDate = today \/ sum = 0
                THEN h.shop.tokensUsedToday ELSE 0
    IN  shop.tokensUsedToday = base + sum

\* two runs of one tenant have both committed a debit onto a counter that was
\* already dated today
C3_Witness ==
  /\ h.shop.plan = "free" /\ h.shop.quotaResetDate = today
  /\ h.shop.tokensUsedToday > 0
  /\ \A r \in Runs : resp[r] = 200 /\ loc[r].tokensUsed > 0

\* ------------------------------------------------------------------------ C4
\* the tokens counted for today before any request
TodaysBase == IF h.gq.quotaResetDate = today THEN h.gq.tokensUsedToday ELSE 0

\* C4: the stored GlobalQuota.tokensUsedToday always equals the usage of all
\* runs that committed a debit since the stored quotaResetDate: what was
\* counted for that day before the requests plus each committed run's usage.
C4_NoCommittedDebitLost ==
  gq.quotaResetDate = today =>
    gq.tokensUsedToday = TodaysBase + SumOver(Runs, Usage)

\* ------------------------------------------------------------------------ C5
\* C5: the stored refreshCount of the tenant never exceeds the plan's limit
\* of refresh runs per billing cycle.
C5_RefreshCountWithinLimit ==
  shop.refreshCount <= RefreshLimit(shop.plan)

\* ------------------------------------------------------------------------ C6
\* what a recommendation query reads for product p from the committed rows
CommittedAnswer(p) == {<<e.tgt, e.reason>> : e \in {f \in recs : f.src = p}}

\* C6: once a sync has committed and returned, no cache entry of a
\* recommendation query holds an answer other than the one the committed rows
\* give.
C6_NoStaleEntryAfterSync ==
  (\E r \in Runs : resp[r] = 200) =>
    \A p \in ProductIds : cache[p].present => cache[p].data = CommittedAnswer(p)

\* ------------------------------------------------------------------------ C7
\* C7: no run's audit record reads success while the run's transaction is
\* still open, and none reads success after the run ended without a commit.
C7_SuccessOnlyAfterCommit ==
  \A r \in Runs :
    syncLog[r].status = "success" => ~tx[r].open /\ resp[r] = 200

\* ------------------------------------------------------------------------ C8
\* C8: a run's audit record is updated at most once after its creation.
C8_AuditUpdatedOnce ==
  \A r \in Runs : syncLog[r].updates <= 1

\* ------------------------------------------------------------------------ C9
\* C9: the audit record of a run whose handler has ended is no longer in the
\* started state.
C9_EndedRunIsFinalized ==
  \A r \in Runs : Finished(r) => syncLog[r].status # "started"

\* ----------------------------------------------------------------------- C10
\* C10: the mode a run resolves, and the mode its audit record carries, is
\* initial when the tenant's initialSyncDone is false, refresh when it is true
\* and the hint is refresh or regenerate is set, and incremental otherwise.
C10_ModeIsFunctionOfThree ==
  \A r \in Runs :
    LET done == loc[r].shop.initialSyncDone
        asked == req[r].hint = "refresh" \/ req[r].regenerate
        expected == IF ~done THEN "initial"
                    ELSE IF asked THEN "refresh" ELSE "incremental"
    IN  /\ loc[r].actualMode # "" => loc[r].actualMode = expected
        /\ syncLog[r].status # "none" => syncLog[r].mode = expected

\* a tenant that has not synced yet asks for a refresh and the run, admitted
\* by the refresh gate, resolves initial and commits
C10_Witness ==
  \E r \in Runs :
    /\ ~h.shop.initialSyncDone /\ req[r].hint = "refresh"
    /\ loc[r].actualMode = "initial" /\ syncLog[r].mode = "initial"
    /\ resp[r] = 200 /\ shop.initialSyncDone

\* ----------------------------------------------------------------------- C11
\* C11: the refresh-cycle gate is evaluated, and rejects, only in a run whose
\* resolved mode (the mode of its audit record) is refresh; a tenant whose
\* initial sync is not done is never rejected by it.
C11_RefreshGateOnlyForRefreshMode ==
  \A r \in Runs :
    pc[r] = "refreshGate" \/ loc[r].reject = "REFRESH_LIMIT" =>
      syncLog[r].mode = "refresh" /\ loc[r].shop.initialSyncDone

\* ----------------------------------------------------------------------- C12
\* C12: in a refresh run every edge the tenant had is deleted when generation
\* starts, and after the run has committed the tenant's edges are exactly the
\* edges the run generated and saved.
C12_RefreshReplacesAllEdges ==
  \A r \in Runs :
    loc[r].actualMode = "refresh" =>
      /\ pc[r] \in {"generate", "saveRecs"} =>
           \A e \in h.recs : <<e.src, e.tgt>> \in tx[r].recDel
      /\ resp[r] = 200 => recs = Range(loc[r].out)

\* a committed refresh run of a tenant that had edges left other edges and
\* none of the old ones
C12_Witness ==
  \E r \in Runs :
    /\ resp[r] = 200 /\ loc[r].actualMode = "refresh"
    /\ h.recs # {} /\ recs # {} /\ recs \cap h.recs = {}

\* ----------------------------------------------------------------------- C13
\* C13: in an incremental run generation is attempted only for submitted
\* products that had no outgoing edge, every generated edge starts at such a
\* product, and after the run has committed every edge that existed before
\* is stored as it was.
C13_IncrementalKeepsOldEdges ==
  \A r \in Runs :
    loc[r].actualMode = "incremental" =>
      /\ \A p \in Range(loc[r].needing) :
           p \in Range(loc[r].saved) /\ ~(\E e \in h.recs : e.src = p)
      /\ \A e \in Range(loc[r].out) : e.src \in Range(loc[r].needing)
      /\ resp[r] = 200 => h.recs \subseteq recs

\* a committed incremental run generated an edge for the product without
\* edges and kept the old edge
C13_Witness ==
  \E r \in Runs :
    /\ resp[r] = 200 /\ loc[r].actualMode = "incremental"
    /\ loc[r].needing = <<"p2">> /\ Len(req[r].products) = 2
    /\ h.recs # {} /\ h.recs \subseteq recs /\ recs # h.recs

\* ----------------------------------------------------------------------- C14
StoredBefore(p) == \E row \in h.product : row.productId = p

\* C14: there is at most one Product row per external id; a row that was
\* stored keeps its id; when every product of every request was stored
\* before, the Product rows are the same after the runs; and every edge
\* refers to products that have a row.
C14_ProductUpsertIdempotent ==
  /\ \A a, b \in product : a.productId = b.productId => a = b
  /\ h.product \subseteq product
  /\ (\A r \in Runs : \A p \in Range(req[r].products) : StoredBefore(p)) =>
       product = h.product
  /\ \A e \in recs : \A p \in {e.src, e.tgt} : \E row \in product : row.productId = p

\* two first syncs that ran together and both submitted p2 have committed,
\* and one row holds p2
C14_Witness ==
  /\ h.product = {}
  /\ \A r \in Runs : resp[r] = 200 /\ "p2" \in Range(loc[r].saved)
  /\ Cardinality({row \in product : row.productId = "p2"}) = 1
  /\ Cardinality(product) = 2

\* ----------------------------------------------------------------------- C15
\* C15: a committed run whose payload lists products more than once stores
\* the productCount, makes the number of generation attempts and reports the
\* number of new recommendations of the payload without the repetitions: the
\* count of distinct products, at most one attempt per distinct product, one
\* count per distinct edge.
C15_RepeatedPayloadCountsOnce ==
  \A r \in Runs :
    resp[r] = 200 =>
      LET n == Cardinality(Range(req[r].products))
      IN  /\ shop.productCount = n
          /\ Len(loc[r].needing) <= n
          /\ loc[r].count = Cardinality({<<e.src, e.tgt>> : e \in Range(loc[r].out)})

\* ----------------------------------------------------------------------- C16
\* the stored cycle key is that of a cycle before the current one
PriorCycleKey(row) ==
  /\ row.refreshMonth.kind # "null"
  /\ row.refreshMonth \notin {MonthKey(today), CurrentCycle(row, today)}

\* C16: a paid tenant whose stored cycle key is of a prior cycle is not
\* rejected by the refresh gate, whatever its stored count, and after its
\* committed refresh run the stored refreshCount is 1 and the stored key is
\* the current cycle.
C16_PriorCycleRestartsAtOne ==
  \A r \in Runs :
    PriorCycleKey(h.shop) /\ h.shop.plan \in {"pro", "max"} =>
      /\ loc[r].reject # "REFRESH_LIMIT"
      /\ resp[r] = 200 /\ loc[r].actualMode = "refresh" =>
           /\ shop.refreshCount = 1
           /\ shop.refreshMonth = CurrentCycle(h.shop, today)

\* a tenant that had used its whole limit in the cycle before has committed a
\* refresh run
C16_Witness ==
  \E r \in Runs :
    /\ PriorCycleKey(h.shop) /\ h.shop.refreshCount = RefreshLimitPro
    /\ resp[r] = 200 /\ loc[r].actualMode = "refresh"
    /\ shop.refreshCount = 1 /\ shop.refreshMonth # h.shop.refreshMonth

\* ----------------------------------------------------------------------- C17
\* the run has passed the token gate
PassedTokenGate(r) == loc[r].actualMode # "" \/ loc[r].reject = "REFRESH_LIMIT"

Blocked(row) ==
  row.isSyncEnabled = FALSE \/ (row.isDevelopmentStore /\ ~row.isWhitelisted)

\* C18 as stated: every run of a blocked tenant that is answered without an
\* exception is answered 403, and no product of it is persisted.
C18_BlockedTenantGets403 ==
  \A r \in Runs :
    Blocked(h.shop) /\ pc[r] = "done" /\ resp[r] # 500 =>
      resp[r] = 403 /\ product = h.product

\* C18, amended: a run of a blocked tenant never resolves a mode and never
\* saves a product, also when the tenant's initial sync is done; it is
\* answered 403, except that a development store that is not whitelisted and
\* whose kill switch is on is answered 400 when the request carries no
\* product, because the payload is validated before the eligibility gate.
C18_BlockedTenantNeverPersists ==
  \A r \in Runs :
    Blocked(h.shop) =>
      /\ loc[r].actualMode = "" /\ loc[r].saved = <<>> /\ tx[r].prodIns = {}
      /\ product = h.product /\ recs = h.recs /\ shop = h.shop
      /\ pc[r] = "done" => resp[r] \in {400, 403, 500}
      /\ GateRejected(r) =>
           resp[r] = IF h.shop.isSyncEnabled /\ req[r].products = <<>>
                     THEN 400 ELSE 403

\* a development store that completed its initial sync and is not whitelisted
\* submits products and is answered 403
C18_Witness ==
  \E r \in Runs :
    /\ h.shop.initialSyncDone /\ h.shop.isDevelopmentStore /\ ~h.shop.isWhitelisted
    /\ req[r].products # <<>> /\ GateRejected(r) /\ resp[r] = 403
    /\ loc[r].reject = "DEV_STORE"

\* ----------------------------------------------------------------------- C19
\* the tenant's tokens counted for today before any request
ShopTodaysBase ==
  IF h.shop.quotaResetDate = today THEN h.shop.tokensUsedToday ELSE 0

\* C19: with no other request in flight, as long as a run has not committed
\* the Product, Recommendation and Shop rows are as before and the GlobalQuota
\* row is as before or reset for the new day; once it has committed, its
\* products and tenant-state update are stored and, if it is a free-plan run
\* that used tokens, both counters hold today's count plus the run's usage.
C19_DebitCommitsWithTheRun ==
  \A r \in Runs :
    stat.pc = "off" /\ req[r].kind = "sync" =>
      IF resp[r] = 200
      THEN /\ shop.productCount = Len(loc[r].saved)
           /\ \A p \in Range(loc[r].saved) : \E row \in product : row.productId = p
           /\ Usage[r] > 0 =>
                /\ gq.tokensUsedToday = TodaysBase + Usage[r]
                /\ shop.tokensUsedToday = ShopTodaysBase + Usage[r]
                /\ gq.quotaResetDate = today /\ shop.quotaResetDate = today
           /\ Usage[r] = 0 =>
                /\ shop.tokensUsedToday = h.shop.tokensUsedToday
                /\ shop.quotaResetDate = h.shop.quotaResetDate
                /\ gq \in {h.gq, [h.gq EXCEPT !.tokensUsedToday = 0,
                                              !.quotaResetDate = today]}
      ELSE /\ TenantRowsAsBefore
           /\ gq \in {h.gq, [h.gq EXCEPT !.tokensUsedToday = 0,
                                         !.quotaResetDate = today]}

\* a free-plan run that used tokens has committed onto counters that already
\* held a count of today
C19_Witness ==
  \E r \in Runs :
    /\ stat.pc = "off" /\ resp[r] = 200 /\ Usage[r] > 0
    /\ h.gq.quotaResetDate = today /\ h.gq.tokensUsedToday > 0
    /\ h.shop.quotaResetDate = today /\ h.shop.tokensUsedToday > 0
    /\ gq.tokensUsedToday = h.gq.tokensUsedToday + Usage[r]
    /\ shop.tokensUsedToday = h.shop.tokensUsedToday + Usage[r]

\* ----------------------------------------------------------------------- C20
RECURSIVE SeqSum(_)
SeqSum(q) == IF q = <<>> THEN 0 ELSE Head(q) + SeqSum(Tail(q))

\* C20: with no other request in flight, after a free-plan run has committed
\* both counters hold today's count plus the sum of the total_tokens of the
\* responses the run received (and the tenant's row is not written when that
\* sum is zero); after a paid-plan run has committed the tenant's counter and
\* the GlobalQuota row are as before.
C20_DebitIsSumOfResponses ==
  \A r \in Runs :
    stat.pc = "off" /\ resp[r] = 200 =>
      LET sum == SeqSum(loc[r].usages)
      IN  IF h.shop.plan = "free"
          THEN /\ sum > 0 => /\ gq.tokensUsedToday = TodaysBase + sum
                             /\ shop.tokensUsedToday = ShopTodaysBase + sum
               /\ sum = 0 => /\ gq.tokensUsedToday = TodaysBase
                             /\ shop.tokensUsedToday = h.shop.tokensUsedToday
          ELSE /\ gq = h.gq
               /\ shop.tokensUsedToday = h.shop.tokensUsedToday
               /\ shop.quotaResetDate = h.shop.quotaResetDate

\* a free-plan run that received two responses with usage has committed the
\* sum of both
C20_Witness ==
  \E r \in Runs :
    /\ stat.pc = "off" /\ resp[r] = 200 /\ h.shop.plan = "free"
    /\ Len(loc[r].usages) = 2 /\ \A i \in 1..2 : loc[r].usages[i] > 0
    /\ shop.tokensUsedToday = ShopTodaysBase + loc[r].usages[1] + loc[r].usages[2]
    /\ gq.tokensUsedToday = TodaysBase + loc[r].usages[1] + loc[r].usages[2]

\* ----------------------------------------------------------------------- C21
\* C21: every product of the generation loop that has a candidate and for
\* which the collaborator returned nothing (not configured, failed call,
\* non-OK status) or content without a usable JSON object has an edge among
\* the edges the generator returns.
C21_CollaboratorProblemGivesFallback ==
  \A r \in Runs :
    \A i \in 1..Len(loc[r].kinds) :
      loc[r].kinds[i] \in {"null", "text"} =>
        \E e \in Range(loc[r].out) : e.src = loc[r].needing[i]

\* ----------------------------------------------------------------------- C22
\* a step taken while run r is in the generation loop
C22_GenerationStep ==
  \A r \in Runs :
    pc[r] = "generate" =>
      /\ pc'[r] \in {"generate", "saveRecs", "shopLock", "shopUpdate"}
      /\ resp'[r] = resp[r] /\ syncLog'[r] = syncLog[r] /\ tx'[r].open
      /\ pc'[r] # "generate" \/ loc'[r].g # loc[r].g =>
           /\ loc'[r].g = loc[r].g + 1
           /\ Len(loc'[r].kinds) = Len(loc[r].kinds) + 1

\* C22: whatever the collaborator returns for a product, the generation loop
\* goes on to the next product or to persistence, never to the handler's
\* catch, and keeps the transaction open and the audit record as it is; one
\* call result is taken per product of the loop; and a run that has
\* committed reads success in its audit record.
C22_GenerationFailureNeverAborts ==
  /\ [][C22_GenerationStep]_vars
  /\ [](\A r \in Runs :
          /\ Len(loc[r].kinds) = loc[r].g - 1
          /\ loc[r].g - 1 <= Len(loc[r].needing)
          /\ resp[r] = 200 =>
                /\ syncLog[r].status = "success"
                /\ Len(loc[r].kinds) = Len(loc[r].needing))

\* a run whose two calls both failed, one returning nothing and one content
\* without JSON, has committed and reads success
C22_Witness ==
  \E r \in Runs :
    /\ resp[r] = 200 /\ syncLog[r].status = "success"
    /\ Range(loc[r].kinds) = {"null", "text"}
    /\ shop.productCount = 2 /\ shop.initialSyncDone

\* ----------------------------------------------------------------------- C23
Opposite(a, b) ==
  \/ Attr(a).gender = "male" /\ Attr(b).gender = "female"
  \/ Attr(a).gender = "female" /\ Attr(b).gender = "male"

\* C23: no edge a run's generator returns, and no edge a run writes or
\* commits, connects a product classified male with one classified female,
\* in either direction, whatever the collaborator picks.
C23_NoEdgeAcrossGenders ==
  /\ \A r \in Runs :
       \A e \in Range(loc[r].out) \cup tx[r].recPut : ~Opposite(e.src, e.tgt)
  /\ \A e \in recs : ~Opposite(e.src, e.tgt)

\* a committed run with a men's, a women's and a unisex product: the
\* collaborator picked the women's product for the men's, the pick was
\* dropped, and the unisex product has an edge to both
C23_Witness ==
  \E r \in Runs :
    /\ resp[r] = 200 /\ loc[r].saved = <<"m1", "f1", "p2">>
    /\ loc[r].kinds = <<"json", "null", "null">>
    /\ ~(\E e \in recs : e.src = "m1")
    /\ \E e \in recs : e.src = "f1" /\ e.tgt = "p2"
    /\ \E e \in recs : e.src = "p2" /\ e.tgt = "m1"
    /\ \E e \in recs : e.src = "p2" /\ e.tgt = "f1"

\* ----------------------------------------------------------------------- C24
\* the tenant's own count of today has reached its own daily budget
TenantBudgetReached(row) ==
  row.quotaResetDate = today /\ row.tokensUsedToday >= row.dailyTokenQuota

\* C24: a run of a tenant whose own tokens used today have reached
\* Shop.dailyTokenQuota never passes the gates: it resolves no mode, saves
\* no product and is not answered 200.
C24_TenantBudgetRejects ==
  \A r \in Runs :
    TenantBudgetReached(h.shop) =>
      /\ loc[r].actualMode = "" /\ loc[r].saved = <<>>
      /\ resp[r] # 200

\* ----------------------------------------------------------------------- C25
\* C25: the limit canRefresh reports for the tenant is the one the refresh
\* gate enforces, a refresh request rejected by the gate was made in a state
\* in which canRefresh reports false, and one that passed the gate in a state
\* in which it reports true.
C25_CanRefreshAgreesWithGate ==
  /\ CanRefreshLimit(shop.plan) = RefreshLimit(shop.plan)
  /\ \A r \in Runs :
       WantsRefresh(r) =>
         /\ loc[r].reject = "REFRESH_LIMIT" => ~CanRefreshAllowed(h.shop, today)
         /\ loc[r].actualMode # "" => CanRefreshAllowed(h.shop, today)

Malformed(q) == q.products = <<>> \/ "noid" \in Range(q.products)

\* C27: a request with a malformed payload, made by a tenant that no
\* eligibility, token or refresh gate turns away and served without a failing
\* database statement, is answered 400, with every Product, Recommendation,
\* Shop and GlobalQuota row as before and the audit record failed.
C27_MalformedPayloadIs400 ==
  \A r \in Runs :
    /\ req[r].kind = "sync" /\ req[r].key = "ok" /\ Malformed(req[r])
    /\ ~Blocked(h.shop) /\ loc[r].reject \notin {"QUOTA", "REFRESH_LIMIT"}
    /\ loc[r].error # "statement"
    /\ stat.pc = "off" /\ pc[r] = "done"
    => /\ resp[r] = 400
       /\ syncLog[r].status = "failed"
       /\ TenantRowsAsBefore /\ gq = h.gq

\* ----------------------------------------------------------------------- C28
\* storefront calls of the tenant that passed the limit check
AdmittedCalls == {c \in Calls : sf[c].upd # "none"}

\* C28: the calls counted for the tenant today before the requests plus the
\* calls admitted since never exceed the plan's daily limit, and a call made
\* when the stored count of today has reached the limit is answered 429.
C28_AdmittedCallsWithinLimit ==
  LET base == CountedCalls(h.shop, today)
      limit == ApiLimit(h.shop.plan)
  IN  /\ base <= limit => base + Cardinality(AdmittedCalls) <= limit
      /\ base >= limit =>
           \A c \in Calls : sf[c].pc \notin {"off", "idle"} =>
             sf[c].pc = "done" /\ sf[c].resp = 429

\* ----------------------------------------------------------------------- C29
\* the clients of two runs wait for a row lock of each other
WaitCycle == \E r \in Runs : \E o \in Holders(r) : r \in Holders(o)

\* C29: no run sends, outside its transaction, a statement that waits for a
\* row lock its own transaction holds; no two runs wait for each other; and
\* every run that has opened its transaction ends with a response.
C29_EveryRunEnds ==
  /\ [](\A r \in Runs : pc[r] = "quotaReset" => GqKey \notin tx[r].locks)
  /\ [](~WaitCycle)
  /\ \A r \in Runs : tx[r].open ~> pc[r] = "done"

\* ----------------------------------------------------------------------- C30
\* clients taken from the pool by handler invocations that have ended
LeakedClients == {r \in Runs : Finished(r) /\ loc[r].client = "held"}

\* C30: every handler invocation that has answered its request has released
\* the client it took from the pool, so no client is checked out by a
\* request that has ended.
C30_ClientReleasedOnEveryOutcome ==
  /\ \A r \in Runs :
       pc[r] = "done" /\ loc[r].client # "none" => loc[r].client = "released"
  /\ LeakedClients = {}

\* ----------------------------------------------------------------------- C31
\* the fallback targets as C31 describes them: the candidates of an accessory
\* category if there are any, else the ranked candidate list; three at most
DescribedFallback(others) ==
  LET accessories ==
        SelectSeq(others, LAMBDA p : Attr(p).category \in AccessoryCategories)
  IN  Take(IF accessories # <<>> THEN accessories ELSE Ranked(others), MaxPicks)

\* one pass of the generator's loop in which the collaborator gave no answer
\* adds the described fallback targets, each with the fixed rationale
C31_FallbackStep ==
  \A r \in Runs :
    /\ pc[r] = "generate"
    /\ Len(loc'[r].kinds) = Len(loc[r].kinds) + 1
    /\ loc'[r].kinds[Len(loc'[r].kinds)] = "null"
    => LET src == loc[r].needing[loc[r].g]
           targets == DescribedFallback(Others(src, loc[r].saved))
           added == SubSeq(loc'[r].out, Len(loc[r].out) + 1, Len(loc'[r].out))
       IN  /\ Take(loc'[r].out, Len(loc[r].out)) = loc[r].out
           /\ Len(added) = Len(targets)
           /\ Range(added) = {Edge(src, t, "Perfect match") : t \in Range(targets)}

\* C31: when the generator falls back for a source product it adds edges to
\* up to three targets: the candidates of an accessory category if any
\* exist, otherwise the first items of the ranked candidate list, each with
\* the fixed generic rationale.
C31_FallbackPrefersAccessoryCategories ==
  [][C31_FallbackStep]_vars

\* ----------------------------------------------------------------------- C32
\* the edges of source p that run r built from collaborator responses
PairingEdges(r, p) ==
  {i \in 1..Len(loc[r].out) :
     loc[r].out[i].src = p /\ loc[r].out[i].reason = "Recommended pairing"}

\* one pass of the generator's loop in which the collaborator's answer was
\* parsed adds at most three edges, no target twice, every target one of the
\* candidates the prompt listed
C32_ResponseStep ==
  \A r \in Runs :
    /\ pc[r] = "generate"
    /\ Len(loc'[r].kinds) = Len(loc[r].kinds) + 1
    /\ loc'[r].kinds[Len(loc'[r].kinds)] = "json"
    => LET src == loc[r].needing[loc[r].g]
           listed == loc'[r].sent[Len(loc'[r].sent)]
           added == SubSeq(loc'[r].out, Len(loc[r].out) + 1, Len(loc'[r].out))
       IN  /\ Len(listed) <= CandidateCap
           /\ Len(added) <= MaxPicks
           /\ \A i \in 1..Len(added) :
                /\ added[i].src = src
                /\ added[i].tgt \in Range(listed)
                /\ \A j \in 1..Len(added) : added[j].tgt = added[i].tgt => j = i

\* C32: every edge created from a collaborator response has a target among
\* the at most 20 ranked candidates that were sent to the collaborator for
\* its source, an id repeated in one response yields one edge, and a run
\* produces at most 3 such edges for one source.
C32_PicksAreListedCandidates ==
  /\ [][C32_ResponseStep]_vars
  /\ [](\A r \in Runs : \A p \in Range(loc[r].needing) :
          Cardinality(PairingEdges(r, p)) <= MaxPicks)

\* ----------------------------------------------------------------------- C33
\* the edges run r has produced, written or committed
EdgesOf(r) ==
  Range(loc[r].out) \cup tx[r].recPut
  \cup (IF resp[r] = 200 THEN recs \ h.recs ELSE {})

SameSettings(a, b) ==
  /\ a.plan = b.plan /\ a.isDevelopmentStore = b.isDevelopmentStore
  /\ a.isWhitelisted = b.isWhitelisted /\ a.isSyncEnabled = b.isSyncEnabled
  /\ a.subscriptionStartedAt = b.subscriptionStartedAt
  /\ a.dailyTokenQuota = b.dailyTokenQuota
  /\ a.apiCallsToday = b.apiCallsToday /\ a.apiCallsDate = b.apiCallsDate

\* C34: once a run has committed, the tenant's Shop row differs from the row
\* before the run only as the run's mode prescribes: initial sets
\* initialSyncDone and stamps lastRefreshAt and leaves refreshCount and
\* refreshMonth; refresh stamps lastRefreshAt, adds one to the counter of the
\* current cycle (counted from zero when the stored cycle key is another) and
\* stores that cycle key; incremental leaves initialSyncDone, lastRefreshAt,
\* refreshCount and refreshMonth; and initialSyncDone never goes from true
\* to false.
C34_TenantUpdateFollowsMode ==
  /\ h.shop.initialSyncDone => shop.initialSyncDone
  /\ \A r \in Runs :
       resp[r] = 200 =>
         LET mode == loc[r].actualMode
             cycle == CurrentCycle(h.shop, today)
         IN  /\ SameSettings(shop, h.shop)
             /\ mode = "initial" =>
                  /\ shop.initialSyncDone /\ shop.lastRefreshAt = today
                  /\ shop.refreshCount = h.shop.refreshCount
                  /\ shop.refreshMonth = h.shop.refreshMonth
             /\ mode = "refresh" =>
                  /\ shop.initialSyncDone = h.shop.initialSyncDone
                  /\ shop.lastRefreshAt = today
                  /\ shop.refreshMonth = cycle
                  /\ shop.refreshCount =
                       (IF h.shop.refreshMonth = cycle THEN h.shop.refreshCount
                                                       ELSE 0) + 1
             /\ mode = "incremental" =>
                  /\ shop.initialSyncDone = h.shop.initialSyncDone
                  /\ shop.lastRefreshAt = h.shop.lastRefreshAt
                  /\ shop.refreshCount = h.shop.refreshCount
                  /\ shop.refreshMonth = h.shop.refreshMonth

\* an incremental run of a tenant that holds a refresh count of an earlier
\* month has committed and changed the product count only
C34_Witness ==
  \E r \in Runs :
    /\ resp[r] = 200 /\ loc[r].actualMode = "incremental"
    /\ h.shop.refreshCount > 0 /\ h.shop.lastRefreshAt = Yesterday0
    /\ shop.productCount # h.shop.productCount
    /\ shop.lastRefreshAt = Yesterday0 /\ shop.refreshCount = h.shop.refreshCount

\* ----------------------------------------------------------------------- C35
\* a step that changes the stored refreshCount or refreshMonth is the commit
\* of a refresh run that wrote both, or the commit of an upgrade from the
\* free plan that cleared both; a statement of a run that changes one of the
\* two in its transaction is the run's UPDATE, which writes both
C35_CounterStep ==
  /\ (shop'.refreshCount # shop.refreshCount
       \/ shop'.refreshMonth # shop.refreshMonth) =>
        \/ \E r \in Runs :
             /\ pc[r] = "commit" /\ pc'[r] = "done"
             /\ loc[r].actualMode = "refresh"
             /\ loc[r].newMonth # NoKey
             /\ shop'.refreshCount = loc[r].newCount
             /\ shop'.refreshMonth = loc[r].newMonth
        \/ /\ adm.kind = "plan" /\ adm.pc = "commit"
           /\ adm.oldPlan = "free" /\ adm.plan \in {"pro", "max"}
           /\ shop'.refreshCount = 0 /\ shop'.refreshMonth = NoKey
  /\ \A r \in Runs :
       (tx'[r].open /\ tx'[r].shopDirty
        /\ (tx'[r].shopRow.refreshCount # ShopView(r).refreshCount
            \/ tx'[r].shopRow.refreshMonth # ShopView(r).refreshMonth)) =>
         /\ pc[r] = "shopUpdate" /\ loc[r].actualMode = "refresh"
         /\ loc[r].newMonth # NoKey
         /\ tx'[r].shopRow.refreshCount = loc[r].newCount
         /\ tx'[r].shopRow.refreshMonth = loc[r].newMonth

\* C35: the refresh counter and its cycle key are written together: each
\* operation that changes a tenant's refreshCount or refreshMonth (a refresh
\* run, a plan upgrade from free) writes both in one statement, and a stored
\* count above zero always has a cycle key beside it.
C35_CounterAndCycleKeyTogether ==
  /\ [][C35_CounterStep]_vars
  /\ [](shop.refreshCount > 0 => shop.refreshMonth # NoKey)

\* a free tenant that held the count of an earlier paid period was upgraded,
\* which cleared the count and the key, and a refresh run then committed the
\* count 1 with the key of the current cycle
C35_Witness ==
  \E r \in Runs :
    /\ adm.kind = "plan" /\ adm.resp = 200 /\ adm.oldPlan = "free"
    /\ h.shop.refreshCount = RefreshLimitPro /\ h.shop.refreshMonth # NoKey
    /\ resp[r] = 200 /\ loc[r].actualMode = "refresh"
    /\ shop.refreshCount = 1 /\ shop.refreshMonth = MonthKey(today)

\* ----------------------------------------------------------------------- C36
\* every edge of `edges` joins two Product rows of `rows`, and no two edges
\* have the same source and target
EdgesSound(edges, rows) ==
  /\ \A e \in edges :
       /\ \E row \in rows : row.productId = e.src
       /\ \E row \in rows : row.productId = e.tgt
  /\ \A e \in edges : \A f \in edges : e.src = f.src /\ e.tgt = f.tgt => e = f

\* C36: whatever sync runs, deletes of recommendations and products and
\* admin reset-sync have done and in whatever order, every stored
\* recommendation edge has a source and a target that are stored Product
\* rows of the edge's own tenant, and there is at most one edge per tenant,
\* source and target.
C36_EdgesJoinStoredProducts ==
  /\ EdgesSound(recs, product)
  /\ EdgesSound(far.recs, far.product)

\* an admin reset-sync has deleted the tenant's stored products and edges,
\* and a sync run that was in flight has stored products and edges anew
C36_Witness ==
  \E r \in Runs :
    /\ adm.kind = "reset" /\ adm.resp = 200
    /\ h.recs # {} /\ h.product # {}
    /\ resp[r] = 200
    /\ recs # {} /\ product \cap h.product = {}

\* ----------------------------------------------------------------------- C37
\* run r has taken a step
Stepped(r) == <<pc[r], loc[r], tx[r]>>' # <<pc[r], loc[r], tx[r]>>

\* a step of a run leaves the rows of the other tenant as they are
C37_ForeignRowsStep ==
  \A r \in Runs :
    Stepped(r) =>
      IF Tenant(r) = "B" THEN UNCHANGED <<shop, product, recs>>
                         ELSE UNCHANGED far

\* the rows tenant t held before any request
RowsBefore(t) ==
  IF t = "B" THEN h.far ELSE [shop |-> h.shop, product |-> h.product, recs |-> h.recs]

\* C37: a sync run changes no Shop, Product or Recommendation row of
\* another tenant; what it has read (the Shop row of its request, the sources
\* that have edges) is of its own tenant; the row locks it holds are of its
\* own tenant or the GlobalQuota row; and the only lock of a run of another
\* tenant it ever waits for is that of the GlobalQuota row.
C37_RunsOfOtherTenantsShareOnlyGlobalQuota ==
  /\ [][C37_ForeignRowsStep]_vars
  /\ [](\A r \in Runs :
          /\ \A k \in tx[r].locks : k = GqKey \/ k.shop = Tenant(r)
          /\ \A o \in Runs :
               Tenant(o) # Tenant(r) => Needs(r) \cap tx[o].locks \subseteq {GqKey}
          /\ (adm.kind = "none" /\ pc[r] # "idle") =>
               /\ loc[r].shop = RowsBefore(Tenant(r)).shop
               /\ loc[r].actualMode = "incremental" =>
                    \A p \in Range(loc[r].needing) :
                      \A e \in RowsBefore(Tenant(r)).recs : e.src # p)

\* a run of tenant A waits for the GlobalQuota row that a run of tenant B has
\* locked, while each holds the lock of its own tenant's product p1, and A's
\* run was asked to generate for p2 only, the one product without edges
\* among A's rows
C37_Witness ==
  \E r \in Runs : \E o \in Runs :
    /\ Tenant(r) = "A" /\ Tenant(o) = "B"
    /\ Needs(r) = {GqKey} /\ GqKey \in tx[o].locks
    /\ KeyOf("A", ProdKey("p1")) \in tx[r].locks
    /\ KeyOf("B", ProdKey("p1")) \in tx[o].locks
    /\ loc[r].needing = <<"p2">> /\ loc[o].needing = <<"p2", "p1">>

\* ------------------------------------------------- billing-cycle computations
\* The three places that compute a cycle key, each applied to the same tenant
\* (anchor day, or none) at the same instant: the refresh gate of the sync
\* handler, canRefresh, and the tenant-state update of the sync handler.
ComputeCycle(site) ==
  /\ cyc.now.y # 0
  /\ cyc.keys[site] = NoCycleKey
  /\ cyc' = [cyc EXCEPT !.keys[site] =
               IF site = "gate"
               THEN [kind |-> "month", y |-> cyc.now.y, m |-> cyc.now.m,
                     d |-> 0]
               ELSE CycleKeyAt(cyc.dayOfMonth, cyc.now)]
  /\ UNCHANGED <<today, gq, shop, product, recs, syncLog, cache, req, pc, loc,
                 tx, resp, qry, stat, h, sf, adm, far>>

\* every anchor day 1..31 (0: no anchor) and every date of the years modelled
InitCycle ==
  \E a \in 0..31 : \E y \in FirstYear..(FirstYear + NumYears - 1) :
    \E m \in 0..11 : \E d \in 1..DaysIn(y, m) :
      InitBase(NewShop, GqRow(SmallQuota, 0, Today0),
               [r \in Runs |-> NoRequest], "", FALSE, {}, {}, NoAdmin, NoFar,
               [NoCycle EXCEPT !.dayOfMonth = a,
                               !.now = [y |-> y, m |-> m, d |-> d]])

SpecCycle == InitCycle /\ [][\E site \in DOMAIN cyc.keys : ComputeCycle(site)]_vars

\* ----------------------------------------------------------------------- C38
\* run r is at work on an admitted sync
AtWork(r) ==
  pc[r] \in {"upsert", "deleteRecs", "diff", "generate", "saveRecs", "shopLock",
             "shopUpdate", "monSuccess", "debitGlobal", "debitShop", "quota",
             "quotaReset", "commit"}

\* C38: while the stored initialSyncDone of a tenant is true (a run has
\* committed it and no admin reset-sync or trigger-sync has set it back), no
\* run of that tenant is at work in initial mode, whenever that run was
\* authenticated; and no two runs of a tenant commit in initial mode without
\* such a reset between them.
C38_OneInitialRunBetweenResets ==
  /\ \A r \in Runs :
       AtWork(r) /\ loc[r].actualMode = "initial" =>
         ~ShopRow(Tenant(r)).initialSyncDone
  /\ adm.kind = "none" =>
       \A r \in Runs : \A o \in Runs \ {r} :
         ~(/\ Tenant(r) = Tenant(o)
           /\ resp[r] = 200 /\ loc[r].actualMode = "initial"
           /\ resp[o] = 200 /\ loc[o].actualMode = "initial")

\* ----------------------------------------------------------------------- C39
\* the most recent date on or before now whose day of month is a, looked for
\* from month m of year y backwards
RECURSIVE LatestAnchorDay(_, _, _, _)
LatestAnchorDay(y, m, a, now) ==
  IF a <= DaysIn(y, m) /\ ~DateAfter([y |-> y, m |-> m, d |-> a], now)
  THEN [kind |-> "day", y |-> y, m |-> m, d |-> a]
  ELSE IF m = 0 THEN LatestAnchorDay(y - 1, 11, a, now)
       ELSE LatestAnchorDay(y, m - 1, a, now)

DescribedCycle(a, now) ==
  IF a # 0 THEN LatestAnchorDay(now.y, now.m, a, now)
  ELSE [kind |-> "month", y |-> now.y, m |-> now.m, d |-> 0]

\* C39: the cycle key canRefresh and the tenant-state update compute is the
\* most recent date on or before now whose day of month is the anchor's, for
\* every anchor day 1..31 and every date, and the calendar month for a tenant
\* without an anchor; the refresh gate computes the same key as the update.
C39_CycleIsLatestAnchorDay ==
  /\ \A site \in {"canRefresh", "update"} :
       cyc.keys[site] # NoCycleKey =>
         cyc.keys[site] = DescribedCycle(cyc.dayOfMonth, cyc.now)
  /\ cyc.keys["gate"] # NoCycleKey /\ cyc.keys["update"] # NoCycleKey =>
       cyc.keys["gate"] = cyc.keys["update"]

====
